---- MODULE Spec2Model ----
(***************************************************************************)
(* A model of the DJ analysis core of yandex-music-downloader:             *)
(*   - the Camelot compatibility lookup of the MCP server,                 *)
(*   - the key <-> Camelot tables of the Yandex converter,                 *)
(*   - the harmonic chain builder of scripts/dj/reorder_by_camelot.py,     *)
(*   - the energy, tempo and key estimators of dj_ai_studio.analysis.      *)
(* Every component has its own variables, initial states and actions; a    *)
(* component that is not the one under study stays in its idle state.      *)
(* Python strings that the code parses or formats are sequences of         *)
(* one-character strings; strings that are only used as dictionary keys    *)
(* are TLA+ strings.                                                       *)
(***************************************************************************)
EXTENDS Integers, Sequences, FiniteSets, TLC

VARIABLES
    cam_in,      \* argument of _get_compatible_camelot
    cam_out,     \* its outcome: not called, a returned list, or a raised error
    conv_dir,    \* converter round trip: starts from a "code" or from a "key"
    conv_in,     \* the value the round trip starts from
    conv_mid,    \* the value after the first conversion
    conv_out,    \* the value after the second conversion
    conv_pc,     \* "start", "mid" or "done"
    ch_tracks,   \* build_harmonic_chain: the argument tracks
    ch_start_key,\* the argument start_key ("" when not given)
    ch_strategy, \* the argument strategy
    by_camelot,  \* the groups, in insertion order: <<[key, items]>>
    current,     \* the track the next one is scored against, <<>> before the seed
    chain,       \* the chain built so far
    used_tracks, \* the positions of the tracks placed
    ch_pc,       \* "start", "loop", "done" or "raised"
    ch_exc,      \* the exception raised, "" when none
    sc_in,       \* one candidate of the inner loop: current track, entry, strategy
    sc_out,      \* the score it is ranked with, <<>> before it is computed
    en_in,       \* calculate_energy: the four feature means
    en_out,      \* its EnergyResult, <<>> before the call
    bpm_in,      \* detect_bpm: what the beat tracker reports, and start_bpm
    bpm_out,     \* its outcome: not called, a BPMResult, or a raised error
    key_in,      \* detect_key: the chroma averaged over time, 12 pitch classes
    key_out,     \* its KeyResult, <<>> before the call
    db_track,    \* the tracks table, one row: <<>> when absent, else <<[camelot, source]>>
    api_status,  \* the HTTP status of the last response of the tracks API, 0 before
    batch_items, \* analyze_batch: what each requested track id will meet
    batch_idx,   \* the number of ids the for loop has processed
    batch_results,\* the list results
    batch_pc,    \* "start", "loop", "returned" or "raised"
    up_file,     \* POST /analysis/file: the upload's filename
    up_status,   \* the HTTP status of the response, 0 before
    up_read,     \* whether file.read() was awaited
    up_analyzed, \* <<>> or the extension the analyzer was invoked with
    an_input,    \* async analysis: each call's audio
    an_pc,       \* each call's position
    an_tmp,      \* each call's temporary file name, "" when it has none
    an_files,    \* the temporary directory: name -> content
    an_result,   \* each call's AnalysisResult, <<>> before it returns
    set_tracks,  \* Set.tracks: the list of [position, track_id]
    set_last,    \* the last Set method called: arguments, return value, whether
                 \* it assigned updated_at
    pl_track_ids,\* Playlist.track_ids
    pl_last,     \* the last Playlist method called: arguments and return value
    mcp_rows,    \* the rows of table set_tracks that belong to the set
    mcp_last,    \* the outcome of the last add_track_to_set call
    sync_db,     \* the tracks table, by Yandex source id
    sync_last,   \* the last sync_playlist call: playlist, table before, SyncResult,
                 \* rows created
    rt_config,   \* retry wrapper: the YandexClientConfig
    rt_tries,    \* the local tries
    rt_calls,    \* how often original_wrapper was called
    rt_slept,    \* the seconds slept
    rt_pc,       \* "call", "sleep", "returned" or "raised ..."
    cl_client,   \* YandexClient._client: 0 is None, k the k-th Client built
    cl_pc,       \* each task's position in _get_client: "idle", "init", "done"
    cl_got,      \* the client each task's _get_client returned, 0 before
    cl_inits,    \* how often _init_sync_client has completed
    cl_closes,   \* how often close() has run
    tb_in,       \* key tables: <<"code", c>> or <<"key", k>>
    tb_mid,      \* <<>> or what the first table returned
    tb_out       \* <<>> or what the second table returned

compatVars == <<cam_in, cam_out>>
convVars == <<conv_dir, conv_in, conv_mid, conv_out, conv_pc>>
chainVars == <<ch_tracks, ch_start_key, ch_strategy, by_camelot, current, chain,
               used_tracks, ch_pc, ch_exc>>
scoreVars == <<sc_in, sc_out>>
energyVars == <<en_in, en_out>>
bpmVars == <<bpm_in, bpm_out>>
keyVars == <<key_in, key_out>>
storeVars == <<db_track, api_status>>
batchVars == <<batch_items, batch_idx, batch_results, batch_pc>>
uploadVars == <<up_file, up_status, up_read, up_analyzed>>
asyncVars == <<an_input, an_pc, an_tmp, an_files, an_result>>
coreVars == <<compatVars, convVars, chainVars, scoreVars, energyVars, bpmVars, keyVars>>
serviceVars == <<storeVars, batchVars, uploadVars, asyncVars>>
setVars == <<set_tracks, set_last>>
playlistVars == <<pl_track_ids, pl_last>>
mcpVars == <<mcp_rows, mcp_last>>
syncVars == <<sync_db, sync_last>>
retryVars == <<rt_config, rt_tries, rt_calls, rt_slept, rt_pc>>
clientVars == <<cl_client, cl_pc, cl_got, cl_inits, cl_closes>>
tablesVars == <<tb_in, tb_mid, tb_out>>
libraryVars == <<setVars, playlistVars, mcpVars, syncVars, retryVars, clientVars, tablesVars>>
vars == <<coreVars, serviceVars, libraryVars>>

\* what the actions of one component leave unchanged
notSet == <<coreVars, serviceVars, playlistVars, mcpVars, syncVars, retryVars, clientVars,
            tablesVars>>
notPlaylist == <<coreVars, serviceVars, setVars, mcpVars, syncVars, retryVars, clientVars,
                 tablesVars>>
notMcp == <<coreVars, serviceVars, setVars, playlistVars, syncVars, retryVars, clientVars,
            tablesVars>>
notSync == <<coreVars, serviceVars, setVars, playlistVars, mcpVars, retryVars, clientVars,
             tablesVars>>
notRetry == <<coreVars, serviceVars, setVars, playlistVars, mcpVars, syncVars, clientVars,
              tablesVars>>
notClient == <<coreVars, serviceVars, setVars, playlistVars, mcpVars, syncVars, retryVars,
               tablesVars>>
notTables == <<coreVars, serviceVars, setVars, playlistVars, mcpVars, syncVars, retryVars,
               clientVars>>

(***************************************************************************)
(* Python values                                                           *)
(***************************************************************************)
PyNone == [none |-> TRUE, s |-> <<>>]
PyStr(s) == [none |-> FALSE, s |-> s]

NotCalled == [kind |-> "not_called", val |-> <<>>]
Return(v) == [kind |-> "return", val |-> v]
Raise(e) == [kind |-> "raise", val |-> <<e>>]

DigitChars == <<"0", "1", "2", "3", "4", "5", "6", "7", "8", "9">>
IsDigit(c) == \E i \in 1..10 : DigitChars[i] = c
DigitVal(c) == (CHOOSE i \in 1..10 : DigitChars[i] = c) - 1

Front(s) == SubSeq(s, 1, Len(s) - 1)
Last(s) == s[Len(s)]

RECURSIVE DigitsValue(_)
DigitsValue(s) ==
    IF s = <<>> THEN 0 ELSE DigitsValue(Front(s)) * 10 + DigitVal(Last(s))

AllDigits(s) == s # <<>> /\ \A i \in 1..Len(s) : IsDigit(s[i])

\* int(text) for a text over digits, letters and "-": an optional sign and
\* then one or more decimal digits; anything else raises ValueError.
IntParses(s) ==
    \/ AllDigits(s)
    \/ Len(s) >= 2 /\ s[1] = "-" /\ AllDigits(Tail(s))
IntValue(s) == IF s[1] = "-" THEN 0 - DigitsValue(Tail(s)) ELSE DigitsValue(s)

RECURSIVE NatToStr(_)
NatToStr(n) ==
    IF n < 10 THEN <<DigitChars[n + 1]>>
    ELSE NatToStr(n \div 10) \o <<DigitChars[(n % 10) + 1]>>

\* f"{n}" for an int n
IntToStr(n) == IF n < 0 THEN <<"-">> \o NatToStr(0 - n) ELSE NatToStr(n)

(***************************************************************************)
(* apps/mcp: _get_compatible_camelot                                       *)
(***************************************************************************)
next_num(num) == (num % 12) + 1

prev_num_nowrap(num) == num - 1
prev_num(num) == ((num - 2) % 12) + 1

\* A switch of mode that always lands on the major side
other_letter_always_b(letter) == "B"
other_letter(letter) == IF letter = "A" THEN "B" ELSE "A"

_get_compatible_camelot(camelot) ==
    IF camelot.none \/ camelot.s = <<>> \/ Len(camelot.s) < 2
    THEN Return(<<>>)
    ELSE LET prefix == Front(camelot.s)
             letter == Last(camelot.s)
         IN  IF ~IntParses(prefix)
             THEN Raise("ValueError")
             ELSE LET num == IntValue(prefix)
                  IN  Return(<< camelot.s,
                                IntToStr(next_num(num)) \o <<letter>>,
                                IntToStr(prev_num(num)) \o <<letter>>,
                                IntToStr(num) \o <<other_letter(letter)>> >>)

MaxLen == 3
Alphabet == {DigitChars[i] : i \in 1..10} \cup {"A", "B", "X", "-"}

RECURSIVE StringsOfLen(_)
StringsOfLen(n) ==
    IF n = 0 THEN {<<>>}
    ELSE {s \o <<c>> : s \in StringsOfLen(n - 1), c \in Alphabet}

CamInputs == {PyNone} \cup {PyStr(s) : s \in UNION {StringsOfLen(n) : n \in 0..MaxLen}}

IdleCompat == cam_in = PyNone /\ cam_out = NotCalled

InitCompatVars == cam_in \in CamInputs /\ cam_out = NotCalled

CallCompat ==
    /\ cam_out = NotCalled
    /\ cam_out' = _get_compatible_camelot(cam_in)
    /\ UNCHANGED <<cam_in, convVars, chainVars, scoreVars, libraryVars, energyVars, bpmVars, keyVars,
                   serviceVars, libraryVars>>

(***************************************************************************)
(* packages/core yandex/converter.py: key_to_camelot, camelot_to_key       *)
(***************************************************************************)
major_map ==
    ("C" :> "8B") @@ ("G" :> "9B") @@ ("D" :> "10B") @@ ("A" :> "11B") @@
    ("E" :> "12B") @@ ("B" :> "1B") @@ ("F#" :> "2B") @@ ("Gb" :> "2B") @@
    ("Db" :> "3B") @@ ("C#" :> "3B") @@ ("Ab" :> "4B") @@ ("G#" :> "4B") @@
    ("Eb" :> "5B") @@ ("D#" :> "5B") @@ ("Bb" :> "6B") @@ ("A#" :> "6B") @@
    ("F" :> "7B")

minor_map ==
    ("Am" :> "8A") @@ ("Em" :> "9A") @@ ("Bm" :> "10A") @@ ("F#m" :> "11A") @@
    ("Gbm" :> "11A") @@ ("C#m" :> "12A") @@ ("Dbm" :> "12A") @@ ("G#m" :> "1A") @@
    ("Abm" :> "1A") @@ ("D#m" :> "2A") @@ ("Ebm" :> "2A") @@ ("A#m" :> "3A") @@
    ("Bbm" :> "3A") @@ ("Fm" :> "4A") @@ ("Cm" :> "5A") @@ ("Gm" :> "6A") @@
    ("Dm" :> "7A")

camelot_map ==
    ("1A" :> "G#m") @@ ("2A" :> "D#m") @@ ("3A" :> "A#m") @@ ("4A" :> "Fm") @@
    ("5A" :> "Cm") @@ ("6A" :> "Gm") @@ ("7A" :> "Dm") @@ ("8A" :> "Am") @@
    ("9A" :> "Em") @@ ("10A" :> "Bm") @@ ("11A" :> "F#m") @@ ("12A" :> "C#m") @@
    ("1B" :> "B") @@ ("2B" :> "F#") @@ ("3B" :> "Db") @@ ("4B" :> "Ab") @@
    ("5B" :> "Eb") @@ ("6B" :> "Bb") @@ ("7B" :> "F") @@ ("8B" :> "C") @@
    ("9B" :> "G") @@ ("10B" :> "D") @@ ("11B" :> "A") @@ ("12B" :> "E")

key_to_camelot_sharps_only(key) ==
    IF key \in DOMAIN minor_map THEN minor_map[key]
    ELSE IF key \in (DOMAIN major_map) \ {"Gb", "Db", "Ab", "Eb", "Bb"}
         THEN major_map[key]
         ELSE "8B"
key_to_camelot(key) ==
    IF key \in DOMAIN minor_map THEN minor_map[key]
    ELSE IF key \in DOMAIN major_map THEN major_map[key]
         ELSE "8B"

camelot_to_key(camelot) ==
    IF camelot \in DOMAIN camelot_map THEN camelot_map[camelot] ELSE "C"

\* The 24 codes of the wheel, written out.
CamelotCodes ==
    {"1A", "2A", "3A", "4A", "5A", "6A", "7A", "8A", "9A", "10A", "11A", "12A",
     "1B", "2B", "3B", "4B", "5B", "6B", "7B", "8B", "9B", "10B", "11B", "12B"}

ConvCodeInputs == CamelotCodes \cup {"", "0A", "13B", "8C"}
ConvKeyInputs == (DOMAIN major_map) \cup (DOMAIN minor_map) \cup {"", "H", "Xm"}

IdleConv ==
    /\ conv_dir = "code" /\ conv_in = "" /\ conv_mid = "" /\ conv_out = ""
    /\ conv_pc = "idle"

InitConvVars ==
    /\ conv_dir \in {"code", "key"}
    /\ conv_in \in (IF conv_dir = "code" THEN ConvCodeInputs ELSE ConvKeyInputs)
    /\ conv_mid = "" /\ conv_out = ""
    /\ conv_pc = "start"

ConvFirst ==
    /\ conv_pc = "start"
    /\ conv_mid' = (IF conv_dir = "code" THEN camelot_to_key(conv_in)
                    ELSE key_to_camelot(conv_in))
    /\ conv_pc' = "mid"
    /\ UNCHANGED <<conv_dir, conv_in, conv_out, compatVars, chainVars, scoreVars, libraryVars, energyVars, bpmVars, keyVars,
                   serviceVars, libraryVars>>

ConvSecond ==
    /\ conv_pc = "mid"
    /\ conv_out' = (IF conv_dir = "code" THEN key_to_camelot(conv_mid)
                    ELSE camelot_to_key(conv_mid))
    /\ conv_pc' = "done"
    /\ UNCHANGED <<conv_dir, conv_in, conv_mid, compatVars, chainVars, scoreVars, libraryVars, energyVars, bpmVars, keyVars,
                   serviceVars, libraryVars>>

(***************************************************************************)
(* scripts/dj/reorder_by_camelot.py: the harmonic chain builder            *)
(*                                                                         *)
(* A track is [position, camelot, bpm]. camelot is a string, "" when no    *)
(* key is recorded (None and "" are both falsy and the code only tests     *)
(* truthiness). bpm is <<>> for None and <<n>> for the number n. position  *)
(* is the track's number in the metadata file, unique per track.           *)
(***************************************************************************)
CAMELOT_TRANSITIONS ==
    ("1A" :> <<"1A", "2A", "12A", "1B">>) @@ ("2A" :> <<"2A", "3A", "1A", "2B">>) @@
    ("3A" :> <<"3A", "4A", "2A", "3B">>) @@ ("4A" :> <<"4A", "5A", "3A", "4B">>) @@
    ("5A" :> <<"5A", "6A", "4A", "5B">>) @@ ("6A" :> <<"6A", "7A", "5A", "6B">>) @@
    ("7A" :> <<"7A", "8A", "6A", "7B">>) @@ ("8A" :> <<"8A", "9A", "7A", "8B">>) @@
    ("9A" :> <<"9A", "10A", "8A", "9B">>) @@ ("10A" :> <<"10A", "11A", "9A", "10B">>) @@
    ("11A" :> <<"11A", "12A", "10A", "11B">>) @@ ("12A" :> <<"12A", "1A", "11A", "12B">>) @@
    ("1B" :> <<"1B", "2B", "12B", "1A">>) @@ ("2B" :> <<"2B", "3B", "1B", "2A">>) @@
    ("3B" :> <<"3B", "4B", "2B", "3A">>) @@ ("4B" :> <<"4B", "5B", "3B", "4A">>) @@
    ("5B" :> <<"5B", "6B", "4B", "5A">>) @@ ("6B" :> <<"6B", "7B", "5B", "6A">>) @@
    ("7B" :> <<"7B", "8B", "6B", "7A">>) @@ ("8B" :> <<"8B", "9B", "7B", "8A">>) @@
    ("9B" :> <<"9B", "10B", "8B", "9A">>) @@ ("10B" :> <<"10B", "11B", "9B", "10A">>) @@
    ("11B" :> <<"11B", "12B", "10B", "11A">>) @@ ("12B" :> <<"12B", "1B", "11B", "12A">>)

BpmNone == <<>>
BpmTruthy(b) == b # <<>> /\ b[1] # 0
Abs(x) == IF x < 0 THEN 0 - x ELSE x
InSeq(x, s) == \E i \in 1..Len(s) : s[i] = x

\* A score, or the exception the computation raises.
Score(n) == [exc |-> "", score |-> n]
ScoreRaise(e) == [exc |-> e, score |-> 0]

\* Key compatibility that scores both neighbours on the wheel alike
KeyPointsSymmetric(current_camelot, next_camelot) ==
    IF current_camelot # "" /\ next_camelot # ""
    THEN LET transitions ==
                 IF current_camelot \in DOMAIN CAMELOT_TRANSITIONS
                 THEN CAMELOT_TRANSITIONS[current_camelot] ELSE <<>>
         IN  IF next_camelot = current_camelot THEN Score(60)
             ELSE IF InSeq(next_camelot, SubSeq(transitions, 1, 3)) THEN Score(50)
             ELSE IF Len(transitions) < 4 THEN ScoreRaise("IndexError")
             ELSE IF next_camelot = transitions[4] THEN Score(45)
             ELSE Score(10)
    ELSE Score(0)
\* Key compatibility (0-60 points); transitions[3] raises IndexError when the
\* current code is not in the table.
KeyPoints(current_camelot, next_camelot) ==
    IF current_camelot # "" /\ next_camelot # ""
    THEN LET transitions ==
                 IF current_camelot \in DOMAIN CAMELOT_TRANSITIONS
                 THEN CAMELOT_TRANSITIONS[current_camelot] ELSE <<>>
         IN  IF next_camelot = current_camelot THEN Score(60)
             ELSE IF InSeq(next_camelot, SubSeq(transitions, 1, 2)) THEN Score(50)
             ELSE IF InSeq(next_camelot, SubSeq(transitions, 3, 3)) THEN Score(40)
             ELSE IF Len(transitions) < 4 THEN ScoreRaise("IndexError")
             ELSE IF next_camelot = transitions[4] THEN Score(45)
             ELSE Score(10)
    ELSE Score(0)

\* BPM compatibility (0-40 points)
BpmPoints(current_bpm, next_bpm) ==
    IF BpmTruthy(current_bpm) /\ BpmTruthy(next_bpm)
    THEN LET bpm_diff == Abs(next_bpm[1] - current_bpm[1])
         IN  IF bpm_diff = 0 THEN 40
             ELSE IF bpm_diff <= 2 THEN 35
             ELSE IF bpm_diff <= 4 THEN 25
             ELSE IF bpm_diff <= 6 THEN 15
             ELSE 5
    ELSE 0

calculate_compatibility_score(current_camelot, next_camelot, current_bpm, next_bpm) ==
    LET k == KeyPoints(current_camelot, next_camelot)
    IN  IF k.exc # "" THEN k
        ELSE Score(k.score + BpmPoints(current_bpm, next_bpm))

\* by_camelot after one track is appended to the list of its key
RECURSIVE GroupAppendOverwrites(_, _)
GroupAppendOverwrites(by, track) ==
    IF by = <<>> THEN << [key |-> track.camelot, items |-> <<track>>] >>
    ELSE IF Head(by).key = track.camelot
         THEN << [key |-> Head(by).key, items |-> <<track>>] >> \o Tail(by)
         ELSE <<Head(by)>> \o GroupAppendOverwrites(Tail(by), track)
RECURSIVE GroupAppend(_, _)
GroupAppend(by, track) ==
    IF by = <<>> THEN << [key |-> track.camelot, items |-> <<track>>] >>
    ELSE IF Head(by).key = track.camelot
         THEN << [key |-> Head(by).key, items |-> Append(Head(by).items, track)] >>
              \o Tail(by)
         ELSE <<Head(by)>> \o GroupAppend(Tail(by), track)

\* The grouping loop: the tracks with a truthy camelot, by key, in input order
RECURSIVE GroupAllTracks(_)
GroupAllTracks(tracks) ==
    IF tracks = <<>> THEN <<>>
    ELSE LET by == GroupAllTracks(Front(tracks))
             track == Last(tracks)
         IN  IF track.camelot # "" THEN GroupAppend(by, track) ELSE by

HasKey(by, k) == \E i \in 1..Len(by) : by[i].key = k
GroupIndex(by, k) == CHOOSE i \in 1..Len(by) : by[i].key = k

\* A seed rule that takes the group that appeared first, whatever its size
PopularIndexFirstGroup(by) == 1
\* max(by_camelot.keys(), key=len of the group): the first group of maximal size
PopularIndex(by) ==
    CHOOSE i \in 1..Len(by) :
        /\ \A j \in 1..Len(by) : Len(by[j].items) <= Len(by[i].items)
        /\ \A j \in 1..(i - 1) : Len(by[j].items) < Len(by[i].items)

\* list.remove(x): drops the first element equal to x
RECURSIVE ListRemove(_, _)
ListRemove(list, x) ==
    IF list = <<>> THEN <<>>
    ELSE IF Head(list) = x THEN Tail(list)
         ELSE <<Head(list)>> \o ListRemove(Tail(list), x)

RemoveFrom(by, i, track) ==
    [by EXCEPT ![i] = [key |-> by[i].key, items |-> ListRemove(by[i].items, track)]]

\* by_camelot[k].pop(0)
PopFirst(by, i) ==
    [by EXCEPT ![i] = [key |-> by[i].key, items |-> Tail(by[i].items)]]

\* The candidates in the order the two nested for loops visit them, without
\* those whose position is in used_tracks.
RECURSIVE AllEntries(_)
AllEntries(by) ==
    IF by = <<>> THEN <<>>
    ELSE [i \in 1..Len(Head(by).items) |->
              [camelot |-> Head(by).key, track |-> Head(by).items[i]]]
         \o AllEntries(Tail(by))

IsUnused(e) == e.track.position \notin used_tracks
Candidates(by) == SelectSeq(AllEntries(by), IsUnused)

\* The score of one candidate with the strategy bonuses, or the exception.
\* int > None and None > int raise TypeError.
CandidateScore(cur, e, strategy) ==
    LET base == calculate_compatibility_score(cur.camelot, e.camelot, cur.bpm, e.track.bpm)
    IN  IF base.exc # "" THEN base
        ELSE IF strategy = "progressive" /\ (e.track.bpm = BpmNone \/ cur.bpm = BpmNone)
             THEN ScoreRaise("TypeError")
        ELSE LET prog == IF strategy = "progressive" /\ e.track.bpm[1] > cur.bpm[1]
                         THEN 10 ELSE 0
                 plat == IF /\ strategy = "plateau"
                            /\ e.track.bpm = cur.bpm
                            /\ e.camelot = cur.camelot
                         THEN 15 ELSE 0
             IN  Score(base.score + prog + plat)

NoBest == [exc |-> "", found |-> FALSE, score |-> 0 - 1, entry |-> <<>>]

\* A comparison that lets a later candidate of equal score replace the best
BetterLast(sc, best) == sc.score >= best.score
Better(sc, best) == sc.score > best.score

\* The inner loops: best_score starts at -1 and a candidate replaces the best
\* one only with a strictly greater score.
RECURSIVE FindBest(_, _, _)
FindBest(cands, cur, strategy) ==
    IF cands = <<>> THEN NoBest
    ELSE LET prev == FindBest(Front(cands), cur, strategy)
             e == Last(cands)
             sc == CandidateScore(cur, e, strategy)
         IN  IF prev.exc # "" THEN prev
             ELSE IF sc.exc # "" THEN [prev EXCEPT !.exc = sc.exc]
             ELSE IF Better(sc, prev)
                  THEN [exc |-> "", found |-> TRUE, score |-> sc.score, entry |-> <<e>>]
                  ELSE prev

MaxTracks == 3
ChainCamelots == {"", "8A", "9A", "8B"}
ChainBpms == {BpmNone, <<120>>, <<123>>}
ChainStartKeys == {"", "9A"}
ChainStrategies == {"progressive", "plateau", "journey"}

TrackLists(n) ==
    {[i \in 1..n |-> [position |-> i, camelot |-> cb[i][1], bpm |-> cb[i][2]]] :
        cb \in [1..n -> ChainCamelots \X ChainBpms]}

IdleChain ==
    /\ ch_tracks = <<>> /\ ch_start_key = "" /\ ch_strategy = "progressive"
    /\ by_camelot = <<>> /\ current = <<>> /\ chain = <<>> /\ used_tracks = {}
    /\ ch_pc = "idle" /\ ch_exc = ""

InitChainVars ==
    /\ ch_tracks \in UNION {TrackLists(n) : n \in 0..MaxTracks}
    /\ ch_start_key \in ChainStartKeys
    /\ ch_strategy \in ChainStrategies
    /\ by_camelot = <<>> /\ current = <<>> /\ chain = <<>> /\ used_tracks = {}
    /\ ch_pc = "start" /\ ch_exc = ""

\* Lines 100-119: the empty-input return, the grouping and the seed.
ChainSeed ==
    /\ ch_pc = "start"
    /\ IF ch_tracks = <<>>
       THEN /\ ch_pc' = "done"
            /\ UNCHANGED <<by_camelot, current, chain, used_tracks, ch_exc>>
       ELSE LET by == GroupAllTracks(ch_tracks)
            IN  IF ch_start_key # "" /\ HasKey(by, ch_start_key)
                THEN LET i == GroupIndex(by, ch_start_key)
                         t == Head(by[i].items)
                     IN  /\ by_camelot' = PopFirst(by, i)
                         /\ current' = <<t>>
                         /\ chain' = <<t>>
                         /\ used_tracks' = {t.position}
                         /\ ch_pc' = "loop"
                         /\ UNCHANGED ch_exc
                ELSE IF by = <<>>
                THEN \* max() of an empty sequence
                     /\ ch_pc' = "raised"
                     /\ ch_exc' = "ValueError"
                     /\ by_camelot' = by
                     /\ UNCHANGED <<current, chain, used_tracks>>
                ELSE LET i == PopularIndex(by)
                         t == Head(by[i].items)
                     IN  /\ by_camelot' = PopFirst(by, i)
                         /\ current' = <<t>>
                         /\ chain' = <<t>>
                         /\ used_tracks' = {t.position}
                         /\ ch_pc' = "loop"
                         /\ UNCHANGED ch_exc
    /\ UNCHANGED <<ch_tracks, ch_start_key, ch_strategy, compatVars, convVars, scoreVars, libraryVars, energyVars, bpmVars, keyVars,
                   serviceVars, libraryVars>>

\* The fallback of lines 165-175: the first unused track of the first group
\* that has one.
FallbackEntry(by) ==
    IF Candidates(by) = <<>> THEN <<>> ELSE <<Head(Candidates(by))>>

\* One iteration of the while loop of lines 122-175.
ChainStep ==
    /\ ch_pc = "loop"
    /\ Len(chain) < Len(ch_tracks)
    /\ LET best == FindBest(Candidates(by_camelot), current[1], ch_strategy)
       IN  IF best.exc # ""
           THEN /\ ch_pc' = "raised"
                /\ ch_exc' = best.exc
                /\ UNCHANGED <<by_camelot, current, chain, used_tracks>>
           ELSE LET picked == IF best.found THEN best.entry ELSE FallbackEntry(by_camelot)
                IN  IF picked = <<>>
                    THEN \* nothing is appended: the loop condition is unchanged
                         UNCHANGED <<by_camelot, current, chain, used_tracks, ch_pc, ch_exc>>
                    ELSE LET e == picked[1]
                         IN  /\ chain' = Append(chain, e.track)
                             /\ used_tracks' = used_tracks \cup {e.track.position}
                             /\ by_camelot' = RemoveFrom(by_camelot,
                                                         GroupIndex(by_camelot, e.camelot),
                                                         e.track)
                             /\ current' = <<e.track>>
                             /\ UNCHANGED <<ch_pc, ch_exc>>
    /\ UNCHANGED <<ch_tracks, ch_start_key, ch_strategy, compatVars, convVars, scoreVars, libraryVars, energyVars, bpmVars, keyVars,
                   serviceVars, libraryVars>>

\* The loop condition fails: return chain.
ChainReturn ==
    /\ ch_pc = "loop"
    /\ ~(Len(chain) < Len(ch_tracks))
    /\ ch_pc' = "done"
    /\ UNCHANGED <<ch_tracks, ch_start_key, ch_strategy, by_camelot, current, chain,
                   used_tracks, ch_exc, compatVars, convVars, scoreVars, energyVars, bpmVars, keyVars,
                   serviceVars, libraryVars>>

\* The score of one candidate of the inner loop, on its own: the current
\* track and the candidate carry one of the 24 codes and a BPM.
ScoreBpms == {118, 120, 121, 122, 124, 126, 127}
ScoreTracks ==
    {[position |-> 1, camelot |-> c, bpm |-> <<b>>] : c \in CamelotCodes, b \in ScoreBpms}

IdleScore == sc_in = <<>> /\ sc_out = <<>>

InitScoreVars ==
    /\ sc_in \in {<<[current |-> cur,
                     entry |-> [camelot |-> t.camelot, track |-> t],
                     strategy |-> st]>> :
                       cur \in {x \in ScoreTracks : x.bpm \in {<<120>>, <<124>>}},
                       t \in ScoreTracks, st \in ChainStrategies}
    /\ sc_out = <<>>

\* Lines 139-153 for one candidate.
CallScore ==
    /\ sc_in # <<>> /\ sc_out = <<>>
    /\ sc_out' = <<CandidateScore(sc_in[1].current, sc_in[1].entry, sc_in[1].strategy)>>
    /\ UNCHANGED <<sc_in, compatVars, convVars, chainVars, energyVars, bpmVars, keyVars,
                   serviceVars, libraryVars>>

(***************************************************************************)
(* Numbers. The estimators compute in floating point; the model computes   *)
(* with exact fractions of integers, so a value is a numerator over a      *)
(* stated denominator and rounding happens only where the code rounds.     *)
(***************************************************************************)
Min(a, b) == IF a < b THEN a ELSE b
Max(a, b) == IF a > b THEN a ELSE b
\* np.clip(x, lo, hi)
Clip(x, lo, hi) == Max(lo, Min(hi, x))

\* round(num / den) for num >= 0, den > 0: to the nearest integer, a half to
\* the even neighbour (Python's round).
RoundHalfEven(num, den) ==
    LET q == num \div den
        r == num % den
    IN  IF 2 * r > den THEN q + 1
        ELSE IF 2 * r < den THEN q
        ELSE IF q % 2 = 0 THEN q ELSE q + 1

(***************************************************************************)
(* packages/core analysis/energy.py: calculate_energy                      *)
(*                                                                         *)
(* The input is the four feature means librosa reports: rms_db in dB,      *)
(* centroid and rolloff in Hz, zcr in thousandths. A normalised feature is *)
(* a numerator over the width of its range; raw_score is RawNum over       *)
(* RawDen, with the weights 0.40, 0.25, 0.20, 0.15 as 8, 5, 4, 3           *)
(* twentieths.                                                             *)
(***************************************************************************)
rms_norm(rms_db) == Clip(rms_db + 60, 0, 60)                       \* / 60
centroid_norm(centroid_mean) == Clip(centroid_mean - 500, 0, 7500) \* / 7500
rolloff_norm(rolloff_mean) == Clip(rolloff_mean - 1000, 0, 14000)  \* / 14000
zcr_norm(zcr_mean) == Clip(zcr_mean - 20, 0, 130)                  \* / 130

\* The least common multiple of the widths 60, 7500, 14000 and 130.
NormDen == 2730000
RawDen == 20 * NormDen

raw_score(f) ==
      8 * rms_norm(f.rms_db) * (NormDen \div 60)
    + 5 * centroid_norm(f.centroid) * (NormDen \div 7500)
    + 4 * rolloff_norm(f.rolloff) * (NormDen \div 14000)
    + 3 * zcr_norm(f.zcr) * (NormDen \div 130)

\* int(np.clip(raw_score * 9 + 1, 1, 10)): int() drops the fraction
\* A scale that starts over at the top
energy_level_wrapped(raw) == 1 + (((9 * raw) \div RawDen) % 9)
energy_scaled_by_ten(raw) == (10 * raw) \div RawDen
energy_level(raw) == Clip(9 * raw + RawDen, RawDen, 10 * RawDen) \div RawDen

\* round(raw_score, 3), in thousandths
raw_score_rounded(raw) ==
    LET unit == RawDen \div 1000
        q == raw \div unit
        r == raw % unit
    IN  IF 2 * r > unit THEN q + 1
        ELSE IF 2 * r < unit THEN q
        ELSE IF q % 2 = 0 THEN q ELSE q + 1

calculate_energy(f) ==
    LET raw == raw_score(f)
    IN  [energy |-> energy_level(raw),
         rms_db |-> f.rms_db,
         spectral_centroid_hz |-> f.centroid,
         spectral_rolloff_hz |-> f.rolloff,
         raw_score |-> raw_score_rounded(raw)]

EnergyRmsDb == {0 - 200, 0 - 60, 0 - 45, 0 - 30, 0 - 6, 0, 40}
EnergyCentroids == {0, 500, 3000, 6000, 8000, 30000}
EnergyRolloffs == {0, 1000, 8000, 12000, 15000, 40000}
EnergyZcrs == {0, 20, 50, 100, 150, 900}

IdleEnergy == en_in = <<>> /\ en_out = <<>>

InitEnergyVars ==
    /\ en_in \in {<< [rms_db |-> a, centroid |-> b, rolloff |-> c, zcr |-> d] >> :
                     a \in EnergyRmsDb, b \in EnergyCentroids,
                     c \in EnergyRolloffs, d \in EnergyZcrs}
    /\ en_out = <<>>

CallEnergy ==
    /\ en_in # <<>> /\ en_out = <<>>
    /\ en_out' = <<calculate_energy(en_in[1])>>
    /\ UNCHANGED <<en_in, compatVars, convVars, chainVars, scoreVars, libraryVars, bpmVars, keyVars,
                   serviceVars, libraryVars>>

(***************************************************************************)
(* packages/core analysis/bpm.py: detect_bpm                               *)
(*                                                                         *)
(* The input is what librosa.beat.beat_track and frames_to_time report:    *)
(* the shape of tempo ("empty" array, "array" of one value, or "scalar"),  *)
(* its value in hundredths of a BPM, and the beat times in hundredths of a *)
(* second; start_bpm is in hundredths of a BPM too.                        *)
(***************************************************************************)
\* Lines 49-50
tempo_value(b) == IF b.shape = "empty" THEN b.start_bpm ELSE b.tempo

RECURSIVE SumSeq(_)
SumSeq(s) == IF s = <<>> THEN 0 ELSE s[1] + SumSeq(Tail(s))

\* np.diff(beat_times)
Diff(times) == [i \in 1..(Len(times) - 1) |-> times[i + 1] - times[i]]

\* Lines 59-63, in hundredths: expected_interval is 60 / tempo, so a
\* deviation |interval - expected| / expected is
\* |interval * tempo - 600000| / 600000 in the model's units.
beat_confidence(intervals, tempo) ==
    LET total == 600000 * Len(intervals)
        devs == [i \in 1..Len(intervals) |-> Abs(intervals[i] * tempo - 600000)]
        mean_clipped == Min(SumSeq(devs), total)     \* / total
    IN  RoundHalfEven(100 * (total - mean_clipped), total)

\* round(float(tempo), 1), in tenths of a BPM
bpm_rounded(tempo) == RoundHalfEven(tempo, 10)

BpmResult(bpm, conf, nan, n) ==
    [kind |-> "return", bpm |-> bpm, confidence |-> conf, confidence_nan |-> nan,
     beats |-> n]
BpmRaise(e) ==
    [kind |-> e, bpm |-> 0, confidence |-> 0, confidence_nan |-> FALSE, beats |-> 0]
BpmNotCalled == BpmRaise("not_called")

min_beats_one(times) == Len(times) > 0
min_beats(times) == Len(times) > 1

detect_bpm(b) ==
    LET tempo == tempo_value(b)
    IN  IF min_beats(b.beat_times)
        THEN IF tempo = 0
             THEN IF b.shape = "scalar"
                  \* a numpy scalar: 60.0 / 0 is inf and the confidence is nan
                  THEN BpmResult(bpm_rounded(tempo), 0, TRUE, Len(b.beat_times))
                  \* a Python float: 60.0 / 0.0
                  ELSE BpmRaise("ZeroDivisionError")
             ELSE IF Len(b.beat_times) < 2
                  \* np.diff of one time is empty and np.mean of it is nan
                  THEN BpmResult(bpm_rounded(tempo), 0, TRUE, Len(b.beat_times))
                  ELSE BpmResult(bpm_rounded(tempo),
                                 beat_confidence(Diff(b.beat_times), tempo),
                                 FALSE, Len(b.beat_times))
        ELSE BpmResult(bpm_rounded(tempo), 0, FALSE, Len(b.beat_times))

MaxBeats == 3
BpmTempos == {0, 9000, 12000, 12804}
BpmStartBpms == {12000}
BpmIntervals == {40, 50, 75}

RECURSIVE BeatTimes(_)
BeatTimes(n) ==
    IF n = 0 THEN {<<>>}
    ELSE IF n = 1 THEN {<<0>>}
    ELSE {Append(t, Last(t) + d) : t \in BeatTimes(n - 1), d \in BpmIntervals}

BpmInputs ==
    {[shape |-> sh, tempo |-> t, start_bpm |-> sb, beat_times |-> bt] :
        sh \in {"array", "scalar"}, t \in BpmTempos, sb \in BpmStartBpms,
        bt \in UNION {BeatTimes(n) : n \in 0..MaxBeats}}
    \cup
    {[shape |-> "empty", tempo |-> 0, start_bpm |-> sb, beat_times |-> bt] :
        sb \in BpmStartBpms, bt \in UNION {BeatTimes(n) : n \in 0..MaxBeats}}

IdleBpm == bpm_in = <<>> /\ bpm_out = BpmNotCalled

InitBpmVars == bpm_in \in {<<b>> : b \in BpmInputs} /\ bpm_out = BpmNotCalled

CallBpm ==
    /\ bpm_in # <<>> /\ bpm_out = BpmNotCalled
    /\ bpm_out' = detect_bpm(bpm_in[1])
    /\ UNCHANGED <<bpm_in, compatVars, convVars, chainVars, scoreVars, libraryVars, energyVars, keyVars,
                   serviceVars, libraryVars>>

(***************************************************************************)
(* packages/core analysis/key.py: detect_key                               *)
(*                                                                         *)
(* The input is chroma_avg, the chroma averaged over time. The profiles    *)
(* are in hundredths. Normalised vectors and correlations are fixed-point  *)
(* numbers in thousandths (One is 1.0), truncated where the division is    *)
(* not exact; the 1e-6 of the code is one millionth.                       *)
(***************************************************************************)
MAJOR_PROFILE == <<635, 223, 348, 233, 438, 409, 252, 519, 239, 366, 229, 288>>
MINOR_PROFILE == <<633, 268, 352, 538, 260, 353, 254, 475, 398, 269, 334, 317>>

NOTE_NAMES ==
    << <<"C">>, <<"C", "#">>, <<"D">>, <<"D", "#">>, <<"E">>, <<"F">>,
       <<"F", "#">>, <<"G">>, <<"G", "#">>, <<"A">>, <<"A", "#">>, <<"B">> >>

\* Indexed by pitch class + 1
CAMELOT_MAJOR ==
    << <<"8", "B">>, <<"3", "B">>, <<"1", "0", "B">>, <<"5", "B">>,
       <<"1", "2", "B">>, <<"7", "B">>, <<"2", "B">>, <<"9", "B">>,
       <<"4", "B">>, <<"1", "1", "B">>, <<"6", "B">>, <<"1", "B">> >>
CAMELOT_MINOR ==
    << <<"5", "A">>, <<"1", "2", "A">>, <<"7", "A">>, <<"2", "A">>,
       <<"9", "A">>, <<"4", "A">>, <<"1", "1", "A">>, <<"6", "A">>,
       <<"1", "A">>, <<"8", "A">>, <<"3", "A">>, <<"1", "0", "A">> >>

One == 10 ^ 3
Million == 10 ^ 6

\* The integer square root: the largest r with r * r <= n
RECURSIVE SqrtBetween(_, _, _)
SqrtBetween(n, lo, hi) ==
    IF lo >= hi THEN lo
    ELSE LET mid == (lo + hi + 1) \div 2
         IN  IF mid * mid <= n THEN SqrtBetween(n, mid, hi)
             ELSE SqrtBetween(n, lo, mid - 1)
ISqrt(n) == SqrtBetween(n, 0, 46340)

SumSquares(v) == SumSeq([i \in 1..Len(v) |-> v[i] * v[i]])

\* Line 115: chroma_avg / (np.linalg.norm(chroma_avg) + 1e-6), in thousandths
chroma_normalized(chroma_avg) ==
    LET norm == ISqrt(SumSquares(chroma_avg) * One * One)      \* thousandths
        den == norm * One + 1                                  \* millionths
    IN  <<>> \o [i \in 1..12 |-> (chroma_avg[i] * One * Million) \div den]

\* np.roll(profile, pitch_class)
roll(profile, pitch_class) ==
    [i \in 1..12 |-> profile[(((i - 1) - pitch_class) % 12) + 1]]

\* Lines 131-132: rotated / np.linalg.norm(rotated), in thousandths
profile_normalized(rotated) ==
    LET norm == ISqrt(SumSquares(rotated) * 100)               \* thousandths
    IN  [i \in 1..12 |-> (rotated[i] * 10 * One) \div norm]

\* np.dot of two vectors in thousandths, in thousandths
dot(a, b) == SumSeq([i \in 1..12 |-> a[i] * b[i]]) \div One

\* A major candidate scored against the minor profile
major_corr_minor_profile(chroma, pitch_class) ==
    dot(chroma, profile_normalized(roll(MINOR_PROFILE, pitch_class)))
major_corr(chroma, pitch_class) ==
    dot(chroma, profile_normalized(roll(MAJOR_PROFILE, pitch_class)))
minor_corr(chroma, pitch_class) ==
    dot(chroma, profile_normalized(roll(MINOR_PROFILE, pitch_class)))

InitialBest ==
    [best_correlation |-> 0 - One, best_key |-> <<"C">>, best_is_minor |-> FALSE,
     best_pitch_class |-> 0]

\* Lines 142-152: the two updates of one loop iteration, given the two
\* correlations of the pitch class
update_best_minor_over_major(best, mj, mn, pitch_class) ==
    LET note == NOTE_NAMES[pitch_class + 1]
        b1 == IF mj > best.best_correlation
              THEN [best_correlation |-> mj, best_key |-> note,
                    best_is_minor |-> FALSE, best_pitch_class |-> pitch_class]
              ELSE best
    IN  IF mn > mj
        THEN [best_correlation |-> mn, best_key |-> note \o <<"m">>,
              best_is_minor |-> TRUE, best_pitch_class |-> pitch_class]
        ELSE b1
update_best(best, mj, mn, pitch_class) ==
    LET note == NOTE_NAMES[pitch_class + 1]
        b1 == IF mj > best.best_correlation
              THEN [best_correlation |-> mj, best_key |-> note,
                    best_is_minor |-> FALSE, best_pitch_class |-> pitch_class]
              ELSE best
    IN  IF mn > b1.best_correlation
        THEN [best_correlation |-> mn, best_key |-> note \o <<"m">>,
              best_is_minor |-> TRUE, best_pitch_class |-> pitch_class]
        ELSE b1

\* The loop of line 125 over pitch classes 0 .. n - 1; corrs holds the
\* correlations the iterations compute, in the order they compute them.
RECURSIVE best_after(_, _)
best_after(corrs, n) ==
    IF n = 0 THEN InitialBest
    ELSE update_best(best_after(corrs, n - 1),
                     corrs[2 * n - 1].corr, corrs[2 * n].corr, n - 1)

\* The correlations dict in insertion order: note, note + "m", next note, ...
correlations(chroma) ==
    <<>> \o [k \in 1..24 |->
        LET pitch_class == (k - 1) \div 2
        IN  IF k % 2 = 1
            THEN [name |-> NOTE_NAMES[pitch_class + 1],
                  corr |-> major_corr(chroma, pitch_class)]
            ELSE [name |-> NOTE_NAMES[pitch_class + 1] \o <<"m">>,
                  corr |-> minor_corr(chroma, pitch_class)]]

\* sorted(values, reverse=True)
RECURSIVE InsertDesc(_, _)
InsertDesc(sorted, x) ==
    IF sorted = <<>> THEN <<x>>
    ELSE IF x >= Head(sorted) THEN <<x>> \o sorted
         ELSE <<Head(sorted)>> \o InsertDesc(Tail(sorted), x)
RECURSIVE SortedDesc(_)
SortedDesc(values) ==
    IF values = <<>> THEN <<>>
    ELSE InsertDesc(SortedDesc(Tail(values)), Head(values))

\* Lines 155-158
camelot_of(best) ==
    IF best.best_is_minor THEN CAMELOT_MINOR[best.best_pitch_class + 1]
    ELSE CAMELOT_MAJOR[best.best_pitch_class + 1]

\* Lines 161-166 and the round(confidence, 2) of line 172, in hundredths
key_confidence_unscaled(sorted_corrs) ==
    IF Len(sorted_corrs) >= 2
    THEN LET num == (sorted_corrs[1] - sorted_corrs[2]) * One  \* millionths
             den == sorted_corrs[1] * One + 1                  \* millionths
         IN  RoundHalfEven(100 * Clip(num, 0, den), den)
    ELSE 0
key_confidence(sorted_corrs) ==
    IF Len(sorted_corrs) >= 2
    THEN LET num == (sorted_corrs[1] - sorted_corrs[2]) * One  \* millionths
             den == sorted_corrs[1] * One + 1                  \* millionths
         IN  RoundHalfEven(100 * Clip(2 * num, 0, den), den)
    ELSE 0

detect_key(chroma_avg) ==
    LET chroma == chroma_normalized(chroma_avg)
        corrs == correlations(chroma)
        best == best_after(corrs, 12)
        sorted_corrs == SortedDesc([k \in 1..24 |-> corrs[k].corr])
    IN  [key |-> best.best_key,
         camelot |-> camelot_of(best),
         is_minor |-> best.best_is_minor,
         confidence |-> key_confidence(sorted_corrs),
         all_correlations |-> corrs]

ChromaLevels == {0, 1}

IdleKey == key_in = <<>> /\ key_out = <<>>

InitKeyVars == key_in \in [1..12 -> ChromaLevels] /\ key_out = <<>>

CallKey ==
    /\ key_in # <<>> /\ key_out = <<>>
    /\ key_out' = <<detect_key(key_in)>>
    /\ UNCHANGED <<key_in, compatVars, convVars, chainVars, scoreVars, libraryVars, energyVars, bpmVars,
                   serviceVars, libraryVars>>

(***************************************************************************)
(* Specifications                                                          *)
(***************************************************************************)
(***************************************************************************)
(* apps/api routers/tracks.py, routers/analysis.py and yandex/sync.py: the *)
(* tracks table                                                            *)
(*                                                                         *)
(* One row of the table stands for the track a request names; the other    *)
(* rows are not touched by a request for this one. A camelot value is None *)
(* or a string of at most three characters, the width of the column.       *)
(***************************************************************************)
\* Track.camelot: pattern=r"^(1[0-2]|[1-9])[AB]$"
MatchesCamelotPattern(s) ==
    \/ /\ Len(s) = 2
       /\ IsDigit(s[1]) /\ s[1] # "0"
       /\ s[2] \in {"A", "B"}
    \/ /\ Len(s) = 3
       /\ s[1] = "1" /\ s[2] \in {"0", "1", "2"}
       /\ s[3] \in {"A", "B"}

\* Request validation of the Track body: camelot is a str that matches
TrackBodyValid(camelot) == ~camelot.none /\ MatchesCamelotPattern(camelot.s)

DEFAULT_CAMELOT == <<"8", "B">>

StoreValues ==
    {PyNone} \cup
    {PyStr(c) : c \in {<<"8", "A">>, <<"1", "2", "B">>, <<"1", "3", "A">>, <<"0", "A">>,
                       <<"8", "C">>, <<"8", "a">>, <<>>}}
StoreSources == {"yandex", "local"}
StoreFields == {"camelot", "rating", "no_such_field"}

Row(camelot, source) == <<[camelot |-> camelot, source |-> source]>>

\* What analyze_track meets on its way: whether a Yandex client is
\* configured, whether Yandex knows the track, whether the download and the
\* analysis succeed, and the key the analysis finds.
AnalyzeCond(y, k, d, a, pc, mn) ==
    [yandex |-> y, on_yandex |-> k, download |-> d, analysis |-> a,
     best_pitch_class |-> pc, best_is_minor |-> mn]
AnalyzeConds ==
    {AnalyzeCond(y, k, d, a, 0, FALSE) : y \in BOOLEAN, k \in BOOLEAN, d \in BOOLEAN,
                                         a \in BOOLEAN}
    \cup {AnalyzeCond(TRUE, TRUE, TRUE, TRUE, pc, mn) : pc \in 0..11, mn \in BOOLEAN}

HttpError(status, detail) == [kind |-> "http", status |-> status, detail |-> detail,
                              camelot |-> <<>>]
OtherError(what) == [kind |-> "error", status |-> 500, detail |-> what, camelot |-> <<>>]
Analyzed(camelot) == [kind |-> "ok", status |-> 200, detail |-> "", camelot |-> camelot]

\* analyze_track for the row it selects: an HTTPException, another exception
\* (from the download or from the analysis), or the response with the
\* camelot written back.
analyze_track(row, cond) ==
    IF row = <<>> THEN HttpError(404, "Track not found")
    ELSE IF row[1].source # "yandex" THEN HttpError(400, "Analysis not supported for source")
    ELSE IF ~cond.yandex THEN HttpError(503, "Yandex Music token not configured")
    ELSE IF ~cond.on_yandex THEN HttpError(404, "Track not found on Yandex Music")
    ELSE IF ~cond.download THEN OtherError("download")
    ELSE IF ~cond.analysis THEN OtherError("analysis")
    ELSE Analyzed(camelot_of(cond))

IdleStore == db_track = <<>> /\ api_status = 0

InitStoreVars == db_track = <<>> /\ api_status = 0

\* POST /tracks
CreateTrack ==
    /\ \E camelot \in StoreValues, source \in StoreSources :
           IF ~TrackBodyValid(camelot)
           THEN api_status' = 422 /\ UNCHANGED db_track
           ELSE IF db_track # <<>>
           THEN api_status' = 409 /\ UNCHANGED db_track
           ELSE api_status' = 201 /\ db_track' = Row(camelot.s, source)
    /\ UNCHANGED <<coreVars, libraryVars, batchVars, uploadVars, asyncVars>>

\* PATCH /tracks/{id} with one field: setattr, commit, then the response is
\* validated. None in the NOT NULL column fails the commit; a string that is
\* not a code is committed and fails only the validation of the response.
UpdateTrackField(field, value) ==
    IF db_track = <<>> THEN api_status' = 404 /\ UNCHANGED db_track
    ELSE IF field = "no_such_field" \/ field = "rating"
    THEN api_status' = 200 /\ UNCHANGED db_track
    ELSE IF value.none
    THEN api_status' = 500 /\ UNCHANGED db_track
    ELSE /\ db_track' = Row(value.s, db_track[1].source)
         /\ api_status' = (IF MatchesCamelotPattern(value.s) THEN 200 ELSE 500)

UpdateTrack ==
    /\ \E field \in StoreFields, value \in StoreValues : UpdateTrackField(field, value)
    /\ UNCHANGED <<coreVars, libraryVars, batchVars, uploadVars, asyncVars>>

\* DELETE /tracks/{id}
DeleteTrack ==
    /\ IF db_track = <<>> THEN api_status' = 404 /\ UNCHANGED db_track
       ELSE api_status' = 204 /\ db_track' = <<>>
    /\ UNCHANGED <<coreVars, libraryVars, batchVars, uploadVars, asyncVars>>

\* POST /analysis/track/{id}
AnalyzeTrack ==
    /\ \E cond \in AnalyzeConds :
           LET out == analyze_track(db_track, cond)
           IN  /\ api_status' = out.status
               /\ IF out.kind = "ok"
                  THEN db_track' = Row(out.camelot, db_track[1].source)
                  ELSE UNCHANGED db_track
    /\ UNCHANGED <<coreVars, libraryVars, batchVars, uploadVars, asyncVars>>

\* YandexSync._sync_track for the Yandex track this row stands for: an
\* existing row is returned as it is, a new one gets the placeholder code.
SyncTrack ==
    /\ IF db_track = <<>> THEN TRUE ELSE db_track[1].source = "yandex"
    /\ IF db_track = <<>> THEN db_track' = Row(DEFAULT_CAMELOT, "yandex")
       ELSE UNCHANGED db_track
    /\ UNCHANGED <<api_status, coreVars, libraryVars, batchVars, uploadVars, asyncVars>>

(***************************************************************************)
(* apps/api routers/analysis.py: analyze_batch                             *)
(*                                                                         *)
(* An item of the request is the row its id selects and what analyze_track *)
(* meets for it. batch_pc is "start" before the size check, "loop" inside  *)
(* the for loop, "returned" after the return, "rejected" after the         *)
(* HTTPException of the size check and "raised" when another exception     *)
(* leaves the handler.                                                     *)
(***************************************************************************)
MaxBatch == 2
BatchLimit == 10

AllFine == AnalyzeCond(TRUE, TRUE, TRUE, TRUE, 9, TRUE)
BatchItemKinds ==
    {[row |-> <<>>, cond |-> AllFine],
     [row |-> Row(DEFAULT_CAMELOT, "local"), cond |-> AllFine],
     [row |-> Row(DEFAULT_CAMELOT, "yandex"), cond |-> AllFine],
     [row |-> Row(DEFAULT_CAMELOT, "yandex"), cond |-> AnalyzeCond(FALSE, TRUE, TRUE, TRUE, 0, FALSE)],
     [row |-> Row(DEFAULT_CAMELOT, "yandex"), cond |-> AnalyzeCond(TRUE, FALSE, TRUE, TRUE, 0, FALSE)],
     [row |-> Row(DEFAULT_CAMELOT, "yandex"), cond |-> AnalyzeCond(TRUE, TRUE, FALSE, TRUE, 0, FALSE)],
     [row |-> Row(DEFAULT_CAMELOT, "yandex"), cond |-> AnalyzeCond(TRUE, TRUE, TRUE, FALSE, 0, FALSE)]}
BatchRequests ==
    UNION {[1..n -> BatchItemKinds] : n \in 0..MaxBatch}
    \cup {[i \in 1..(BatchLimit + 1) |-> [row |-> Row(DEFAULT_CAMELOT, "yandex"), cond |-> AllFine]]}

IdleBatch == batch_items = <<>> /\ batch_idx = 0 /\ batch_results = <<>> /\ batch_pc = "idle"

InitBatchVars ==
    /\ batch_items \in BatchRequests
    /\ batch_idx = 0 /\ batch_results = <<>> /\ batch_pc = "start"

\* Lines 178-184: the size check and results = []
BatchStart ==
    /\ batch_pc = "start"
    /\ batch_pc' = (IF Len(batch_items) > BatchLimit THEN "rejected" ELSE "loop")
    /\ UNCHANGED <<batch_items, batch_idx, batch_results, coreVars, libraryVars, storeVars, uploadVars,
                   asyncVars>>

\* What one pass of the loop body does with the outcome of analyze_track:
\* the result is appended, an HTTPException is passed over, any other
\* exception leaves the handler.
BatchAfter(results, idx, out) ==
    IF out.kind = "ok"
    THEN [results |-> Append(results, [item |-> idx, camelot |-> out.camelot,
                                       updated |-> TRUE]),
          pc |-> "loop"]
    ELSE IF out.kind = "http" THEN [results |-> results, pc |-> "loop"]
    ELSE [results |-> results, pc |-> "raised"]

\* One iteration of the for loop of lines 186-192
BatchItem ==
    /\ batch_pc = "loop"
    /\ batch_idx < Len(batch_items)
    /\ LET item == batch_items[batch_idx + 1]
           after == BatchAfter(batch_results, batch_idx + 1,
                               analyze_track(item.row, item.cond))
       IN  /\ batch_results' = after.results
           /\ batch_pc' = after.pc
           /\ batch_idx' = batch_idx + 1
    /\ UNCHANGED <<batch_items, coreVars, libraryVars, storeVars, uploadVars, asyncVars>>

\* Line 194: return results
BatchReturn ==
    /\ batch_pc = "loop"
    /\ batch_idx = Len(batch_items)
    /\ batch_pc' = "returned"
    /\ UNCHANGED <<batch_items, batch_idx, batch_results, coreVars, libraryVars, storeVars, uploadVars,
                   asyncVars>>

(***************************************************************************)
(* apps/api routers/analysis.py: analyze_file                              *)
(*                                                                         *)
(* The filename is None or a string, a sequence of characters.             *)
(***************************************************************************)
UpperChars ==
    <<"A", "B", "C", "D", "E", "F", "G", "H", "I", "J", "K", "L", "M",
      "N", "O", "P", "Q", "R", "S", "T", "U", "V", "W", "X", "Y", "Z">>
LowerChars ==
    <<"a", "b", "c", "d", "e", "f", "g", "h", "i", "j", "k", "l", "m",
      "n", "o", "p", "q", "r", "s", "t", "u", "v", "w", "x", "y", "z">>
\* str.lower() on ASCII text
LowerChar(c) ==
    IF \E i \in 1..26 : UpperChars[i] = c
    THEN LowerChars[CHOOSE i \in 1..26 : UpperChars[i] = c]
    ELSE c
Lower(s) == [i \in 1..Len(s) |-> LowerChar(s[i])]

\* s.split(".")[-1]: what follows the last dot, all of s when it has no dot
RECURSIVE LastPart(_)
LastPart(s) ==
    IF s = <<>> THEN <<>>
    ELSE IF Last(s) = "." THEN <<>>
    ELSE LastPart(Front(s)) \o <<Last(s)>>

AllowedExtensions ==
    {<<"m", "p", "3">>, <<"f", "l", "a", "c">>, <<"w", "a", "v">>, <<"m", "4", "a">>,
     <<"o", "g", "g">>}

MaxName == 4
NameAlphabet == {".", "m", "p", "3", "M", "x"}
RECURSIVE NamesOfLen(_)
NamesOfLen(n) ==
    IF n = 0 THEN {<<>>}
    ELSE {s \o <<c>> : s \in NamesOfLen(n - 1), c \in NameAlphabet}
OtherNames ==
    {<<"a", ".", "f", "l", "a", "c">>,
     <<"a", ".", "w", "a", "v">>,
     <<"a", ".", "m", "4", "a">>,
     <<"a", ".", "o", "g", "g">>,
     <<"a", ".", "O", "G", "G">>,
     <<"a", ".", "F", "l", "a", "c">>,
     <<"w", "a", "v">>,
     <<"f", "l", "a", "c">>,
     <<"a", ".", "t", "x", "t">>,
     <<"a", ".", "m", "p", "3", ".", "e", "x", "e">>,
     <<"a", ".", "t", "a", "r", ".", "m", "p", "3">>,
     <<"a", ".", "m", "p", "4">>,
     <<"a", ".", "m", "p", "3", "x">>}
UploadNames ==
    {PyNone} \cup {PyStr(s) : s \in UNION {NamesOfLen(n) : n \in 0..MaxName} \cup OtherNames}

IdleUpload == up_file = PyNone /\ up_status = 0 /\ up_read = FALSE /\ up_analyzed = <<>>

InitUploadVars ==
    /\ up_file \in UploadNames
    /\ up_status = 0 /\ up_read = FALSE /\ up_analyzed = <<>>

\* Lines 93-94: the extension and the test against the allow-list
ext_accepted(filename) == Lower(LastPart(filename)) \in AllowedExtensions

\* POST /analysis/file; the analysis itself returns or raises.
AnalyzeFile ==
    /\ up_status = 0
    /\ IF up_file.none \/ up_file.s = <<>>
       THEN up_status' = 400 /\ UNCHANGED <<up_read, up_analyzed>>
       ELSE IF ~ext_accepted(up_file.s)
       THEN up_status' = 400 /\ UNCHANGED <<up_read, up_analyzed>>
       ELSE /\ up_read' = TRUE
            /\ up_analyzed' = <<Lower(LastPart(up_file.s))>>
            /\ up_status' \in {200, 500}
    /\ UNCHANGED <<up_file, coreVars, libraryVars, storeVars, batchVars, asyncVars>>

(***************************************************************************)
(* packages/core analysis/analyzer.py: the asynchronous entry points       *)
(*                                                                         *)
(* Several calls run on one AudioAnalyzer. A call is a coroutine that      *)
(* hands its whole work to a thread with asyncio.to_thread; the threads    *)
(* interleave step by step. What the threads can share is the analyzer     *)
(* object and the file system: a file is a name with a content, <<>> for   *)
(* an empty file and <<signal>> for audio that decodes to that signal. A   *)
(* signal is what the three estimators take from it, and its length.       *)
(***************************************************************************)
\* AudioAnalyzer.__init__: the two attributes, assigned once
AnalyzerSelf == [analysis_duration |-> 60, sample_rate |-> 22050]

SignalA ==
    [beat |-> [shape |-> "array", tempo |-> 12000, start_bpm |-> 12000,
               beat_times |-> <<0, 50, 100>>],
     chroma |-> [i \in 1..12 |-> IF i \in {1, 5, 8} THEN 1 ELSE 0],
     features |-> [rms_db |-> 0 - 6, centroid |-> 3000, rolloff |-> 8000, zcr |-> 50],
     seconds |-> 45]
SignalB ==
    [beat |-> [shape |-> "array", tempo |-> 9000, start_bpm |-> 12000,
               beat_times |-> <<0, 75>>],
     chroma |-> [i \in 1..12 |-> IF i \in {10, 1, 5} THEN 1 ELSE 0],
     features |-> [rms_db |-> 0 - 30, centroid |-> 500, rolloff |-> 1000, zcr |-> 20],
     seconds |-> 200]
AudioSignals == {SignalA, SignalB}

\* librosa.load(path, sr=..., duration=..., mono=True) on a decoded signal
load(signal, duration) == [signal EXCEPT !.seconds = Min(@, duration)]

\* AudioAnalyzer._analyze_signal
_analyze_signal(y, sr) ==
    [bpm |-> detect_bpm(y.beat),
     key |-> detect_key(y.chroma),
     energy |-> calculate_energy(y.features),
     duration_seconds |-> y.seconds,
     sample_rate |-> sr]

\* AudioAnalyzer.analyze_file on the file system as it is: the file must
\* exist and hold audio, or librosa.load raises.
analyze_file(files, path) ==
    IF path \in DOMAIN files /\ files[path] # <<>>
    THEN <<_analyze_signal(load(files[path][1], AnalyzerSelf.analysis_duration),
                           AnalyzerSelf.sample_rate)>>
    ELSE <<"LoadError">>

MaxCalls == 2
TempNameTable == <<"tmp1", "tmp2", "tmp3", "tmp4">>
TempNames == {TempNameTable[i] : i \in 1..MaxCalls}
InputFiles == ("fileA" :> <<SignalA>>) @@ ("fileB" :> <<SignalB>>)
AsyncInputs ==
    {[kind |-> "bytes", data |-> <<a>>, path |-> ""] : a \in AudioSignals}
    \cup {[kind |-> "file", data |-> <<>>, path |-> f] : f \in DOMAIN InputFiles}

\* A temporary file that takes a fixed name, whoever holds it
fresh_names_fixed(files) == {TempNameTable[1]}
\* tempfile.NamedTemporaryFile: a name that no file of the directory has
fresh_names(files) == TempNames \ DOMAIN files

WithFile(files, name, content) ==
    [n \in DOMAIN files \cup {name} |-> IF n = name THEN content ELSE files[n]]
WithoutFile(files, name) == [n \in DOMAIN files \ {name} |-> files[n]]

IdleAsync ==
    /\ an_input = <<>> /\ an_pc = <<>> /\ an_tmp = <<>> /\ an_files = <<>>
    /\ an_result = <<>>

InitAsyncVars ==
    /\ an_input \in UNION {[1..n -> AsyncInputs] : n \in 1..MaxCalls}
    /\ an_pc = [c \in DOMAIN an_input |-> [at |-> "new", offloaded |-> 0]]
    /\ an_tmp = [c \in DOMAIN an_input |-> ""]
    /\ an_files = InputFiles
    /\ an_result = [c \in DOMAIN an_input |-> <<>>]

\* analyze_file_async / analyze_bytes_async: await asyncio.to_thread(...)
AsyncCall(c) ==
    /\ an_pc[c].at = "new"
    /\ an_pc' = [an_pc EXCEPT ![c] = [at |-> "queued", offloaded |-> @.offloaded + 1]]
    /\ UNCHANGED <<an_input, an_tmp, an_files, an_result, coreVars, libraryVars, storeVars, batchVars,
                   uploadVars>>

\* analyze_bytes in its thread: with tempfile.NamedTemporaryFile(...) as f
WorkerCreateTemp(c) ==
    /\ an_pc[c].at = "queued" /\ an_input[c].kind = "bytes"
    /\ \E name \in fresh_names(an_files) :
           /\ an_tmp' = [an_tmp EXCEPT ![c] = name]
           /\ an_files' = WithFile(an_files, name, <<>>)
    /\ an_pc' = [an_pc EXCEPT ![c].at = "created"]
    /\ UNCHANGED <<an_input, an_result, coreVars, libraryVars, storeVars, batchVars, uploadVars>>

\* f.write(audio_data); f.flush()
WorkerWrite(c) ==
    /\ an_pc[c].at = "created"
    /\ an_files' = (IF an_tmp[c] \in DOMAIN an_files
                    THEN WithFile(an_files, an_tmp[c], an_input[c].data)
                    ELSE an_files)
    /\ an_pc' = [an_pc EXCEPT ![c].at = "written"]
    /\ UNCHANGED <<an_input, an_tmp, an_result, coreVars, libraryVars, storeVars, batchVars, uploadVars>>

\* self.analyze_file(f.name), or self.analyze_file(file_path) for a call on
\* a file, whose thread returns with it
WorkerAnalyze(c) ==
    /\ \/ an_pc[c].at = "written"
       \/ an_pc[c].at = "queued" /\ an_input[c].kind = "file"
    /\ LET path == IF an_input[c].kind = "file" THEN an_input[c].path ELSE an_tmp[c]
       IN  an_result' = [an_result EXCEPT ![c] = analyze_file(an_files, path)]
    /\ an_pc' = [an_pc EXCEPT ![c].at = IF an_input[c].kind = "file" THEN "done"
                                        ELSE "analyzed"]
    /\ UNCHANGED <<an_input, an_tmp, an_files, coreVars, libraryVars, storeVars, batchVars, uploadVars>>

\* The with block is left: the temporary file is closed and deleted, the
\* thread returns
WorkerClose(c) ==
    /\ an_pc[c].at = "analyzed"
    /\ an_files' = WithoutFile(an_files, an_tmp[c])
    /\ an_tmp' = [an_tmp EXCEPT ![c] = ""]
    /\ an_pc' = [an_pc EXCEPT ![c].at = "done"]
    /\ UNCHANGED <<an_input, an_result, coreVars, libraryVars, storeVars, batchVars, uploadVars>>

(***************************************************************************)
(* packages/core/src/dj_ai_studio/models/set.py: the Set model.  A track   *)
(* of the set is [position, track_id]; the other fields of SetTrack are    *)
(* carried along unread.  A Python list index i is the index i + 1 here.   *)
(***************************************************************************)
MaxSetLen == 3
SetTrackIds == {"t1", "t2"}
SetPositions == 0..(MaxSetLen + 1)

\* set.py 105-118: the validator compares the sorted positions with 1..n
validate_track_positions(tracks) ==
    \A p \in 1..Len(tracks) :
        Cardinality({i \in 1..Len(tracks) : tracks[i].position = p}) = 1

\* list.pop(i) leaves the list without its element i
pop(s, i) == SubSeq(s, 1, i - 1) \o SubSeq(s, i + 1, Len(s))

\* list.insert(index, x) with Python's 0-based index, clamped at both ends
py_insert(s, index, x) ==
    LET shifted == IF index < 0 THEN index + Len(s) ELSE index
        at == IF shifted < 0 THEN 0 ELSE IF shifted > Len(s) THEN Len(s) ELSE shifted
    IN  SubSeq(s, 1, at) \o <<x>> \o SubSeq(s, at + 1, Len(s))

renumber_skipped(tracks) == tracks

\* set.py 166-168 and 205-206: every track takes its list index + 1
renumber(tracks) == [j \in 1..Len(tracks) |-> [tracks[j] EXCEPT !.position = j]]

\* the first list index whose track has the position, 0 when none has
index_of_position(tracks, position) ==
    IF \E i \in 1..Len(tracks) : tracks[i].position = position
    THEN CHOOSE i \in 1..Len(tracks) :
            /\ tracks[i].position = position
            /\ \A k \in 1..(i - 1) : tracks[k].position # position
    ELSE 0

IdleSet == set_tracks = <<>> /\ set_last = [op |-> "none", args |-> <<>>, ret |-> <<>>, updated |-> FALSE]

\* a Set as the constructor accepts it: any list that passes the validator
InitSetVars ==
    /\ set_tracks \in {s \in UNION {[1..n -> [position : 1..MaxSetLen, track_id : SetTrackIds]] :
                                       n \in 0..MaxSetLen} : validate_track_positions(s)}
    /\ set_last = [op |-> "none", args |-> <<>>, ret |-> <<>>, updated |-> FALSE]

\* set.py 120-151
Set_add_track ==
    \E track_id \in SetTrackIds :
        LET set_track == [position |-> Len(set_tracks) + 1, track_id |-> track_id]
        IN  /\ Len(set_tracks) < MaxSetLen
            /\ set_tracks' = Append(set_tracks, set_track)
            /\ set_last' = [op |-> "add_track", args |-> <<track_id>>,
                            ret |-> <<set_track>>, updated |-> TRUE]
            /\ UNCHANGED notSet

\* set.py 153-171
Set_remove_track ==
    \E position \in SetPositions :
        LET i == index_of_position(set_tracks, position)
        IN  /\ IF i # 0
               THEN /\ set_tracks' = renumber(pop(set_tracks, i))
                    /\ set_last' = [op |-> "remove_track", args |-> <<position>>,
                                    ret |-> <<set_tracks[i]>>, updated |-> TRUE]
               ELSE /\ set_tracks' = set_tracks
                    /\ set_last' = [op |-> "remove_track", args |-> <<position>>,
                                    ret |-> <<>>, updated |-> FALSE]
            /\ UNCHANGED notSet

\* set.py 173-209
Set_reorder_track ==
    \E from_position \in SetPositions, to_position \in SetPositions :
        LET returns(b) == set_last' = [op |-> "reorder_track",
                                       args |-> <<from_position, to_position>>,
                                       ret |-> <<b>>, updated |-> FALSE]
            i == index_of_position(set_tracks, from_position)
        IN  /\ IF from_position = to_position
               THEN set_tracks' = set_tracks /\ returns(TRUE)
               ELSE IF ~(1 <= from_position /\ from_position <= Len(set_tracks))
               THEN set_tracks' = set_tracks /\ returns(FALSE)
               ELSE IF ~(1 <= to_position /\ to_position <= Len(set_tracks))
               THEN set_tracks' = set_tracks /\ returns(FALSE)
               ELSE IF i = 0
               THEN set_tracks' = set_tracks /\ returns(FALSE)
               ELSE /\ set_tracks' = renumber(py_insert(pop(set_tracks, i), to_position - 1,
                                                        set_tracks[i]))
                    /\ set_last' = [op |-> "reorder_track",
                                    args |-> <<from_position, to_position>>,
                                    ret |-> <<TRUE>>, updated |-> TRUE]
            /\ UNCHANGED notSet

(***************************************************************************)
(* packages/core/src/dj_ai_studio/models/playlist.py: the Playlist model,  *)
(* its list track_ids and the methods that change it.                      *)
(***************************************************************************)
MaxPlaylistLen == 3
PlaylistTrackIds == {"u1", "u2"}
\* an optional position: <<>> is None, <<n>> is the integer n
PlaylistPositions == {<<>>} \cup {<<n>> : n \in (0 - 1)..(MaxPlaylistLen + 1)}
PlaylistIndexes == (0 - 1)..MaxPlaylistLen

\* playlist.py 111-120
contains(track_ids, track_id) == InSeq(track_id, track_ids)

IdlePlaylist == pl_track_ids = <<>> /\ pl_last = [op |-> "none", args |-> <<>>, ret |-> <<>>]

\* playlist.py 47-49: track_ids is any list of ids, empty by default
InitPlaylistVars ==
    /\ pl_track_ids \in UNION {[1..n -> PlaylistTrackIds] : n \in 0..MaxPlaylistLen}
    /\ pl_last = [op |-> "none", args |-> <<>>, ret |-> <<>>]

\* playlist.py 65-75
Playlist_add_track ==
    \E track_id \in PlaylistTrackIds, position \in PlaylistPositions :
        /\ Len(pl_track_ids) < MaxPlaylistLen
        /\ pl_track_ids' = IF position = <<>>
                           THEN Append(pl_track_ids, track_id)
                           ELSE py_insert(pl_track_ids, position[1], track_id)
        /\ pl_last' = [op |-> "add_track", args |-> <<track_id, position>>, ret |-> <<>>]
        /\ UNCHANGED notPlaylist

\* playlist.py 77-90: list.remove drops the first occurrence, or raises
\* ValueError when there is none
Playlist_remove_track ==
    \E track_id \in PlaylistTrackIds :
        /\ pl_track_ids' = ListRemove(pl_track_ids, track_id)
        /\ pl_last' = [op |-> "remove_track", args |-> <<track_id>>,
                       ret |-> <<InSeq(track_id, pl_track_ids)>>]
        /\ UNCHANGED notPlaylist

\* playlist.py 92-109
Playlist_reorder_track ==
    \E from_index \in PlaylistIndexes, to_index \in PlaylistIndexes :
        LET in_range(i) == 0 <= i /\ i < Len(pl_track_ids)
            ok == in_range(from_index) /\ in_range(to_index)
        IN  /\ pl_track_ids' =
                  IF ok
                  THEN py_insert(pop(pl_track_ids, from_index + 1), to_index,
                                 pl_track_ids[from_index + 1])
                  ELSE pl_track_ids
            /\ pl_last' = [op |-> "reorder_track", args |-> <<from_index, to_index>>,
                           ret |-> <<ok>>]
            /\ UNCHANGED notPlaylist

(***************************************************************************)
(* apps/mcp/src/dj_ai_mcp/server.py: the tool add_track_to_set.  The table *)
(* set_tracks holds the rows of the one existing set, in insertion order.  *)
(***************************************************************************)
MaxPosition == 3
McpSetIds == {"set1", "no-set"}
McpTrackIds == {"k1", "k2", "no-track"}
\* the optional argument: <<>> is None, <<n>> is the integer n
McpPositions == {<<>>} \cup {<<n>> : n \in 1..MaxPosition}

McpNone == [kind |-> "none", args |-> <<>>, val |-> <<>>]
McpResult(kind, args, val) == [kind |-> kind, args |-> args, val |-> val]

\* server.py 420-426: select ... order_by(position.desc()) has no limit, and
\* Result.scalar_one_or_none() returns None for no row, the row for one row,
\* and raises MultipleResultsFound for more
scalar_one_or_none(rows) ==
    IF Len(rows) = 0 THEN Return(<<>>)
    ELSE IF Len(rows) = 1 THEN Return(<<rows[1]>>)
    ELSE Raise("MultipleResultsFound")

IdleMcp == mcp_rows = <<>> /\ mcp_last = McpNone

\* a set that was just created has no tracks
InitMcpVars == mcp_rows = <<>> /\ mcp_last = McpNone

\* server.py 396-445
add_track_to_set ==
    \E set_id \in McpSetIds, track_id \in McpTrackIds, position \in McpPositions :
        LET args == <<set_id, track_id, position>>
            last == scalar_one_or_none(mcp_rows)
            next_pos == IF last.val = <<>> THEN 1 ELSE last.val[1].position + 1
            stored == IF position = <<>> THEN next_pos ELSE position[1]
        IN  /\ IF set_id # "set1"
               THEN /\ mcp_last' = McpResult("error", args, <<"Set not found">>)
                    /\ mcp_rows' = mcp_rows
               ELSE IF track_id = "no-track"
               THEN /\ mcp_last' = McpResult("error", args, <<"Track not found">>)
                    /\ mcp_rows' = mcp_rows
               ELSE IF last.kind = "raise"
               THEN /\ mcp_last' = McpResult("raise", args, last.val)
                    /\ mcp_rows' = mcp_rows
               ELSE /\ mcp_rows' = Append(mcp_rows, [track_id |-> track_id, position |-> stored])
                    /\ mcp_last' = McpResult("return", args, <<stored>>)
            /\ UNCHANGED notMcp

(***************************************************************************)
(* packages/core/src/dj_ai_studio/yandex/sync.py: sync_playlist.  The      *)
(* tracks table maps each Yandex source id to "absent", to "new" (a row    *)
(* whose analyzed_at is NULL) or to "analyzed" (a row with analyzed_at).   *)
(***************************************************************************)
MaxPlaylistTracks == 2
SourceIds == {"y1", "y2"}
\* what get_playlist answers: <<>> is None, <<tracks>> is a playlist
YandexPlaylists ==
    {<<>>} \cup {<<p>> : p \in UNION {[1..n -> SourceIds] : n \in 0..MaxPlaylistTracks}}

SyncResult(added, skipped, errors) ==
    [tracks_added |-> added, tracks_skipped |-> skipped, errors |-> errors]

\* sync.py 171-223: the existing row is returned, or one is created with
\* analyzed_at = None
_sync_track(db, source_id) ==
    IF db[source_id] # "absent"
    THEN [db |-> db, analyzed_at_is_none |-> db[source_id] = "new", created |-> 0]
    ELSE [db |-> [db EXCEPT ![source_id] = "new"], analyzed_at_is_none |-> TRUE, created |-> 1]

\* sync.py 82-93: the loop over the playlist's tracks
RECURSIVE sync_tracks(_, _, _)
sync_tracks(acc, tracks, k) ==
    IF k > Len(tracks) THEN acc
    ELSE LET t == _sync_track(acc.db, tracks[k])
         IN  sync_tracks([db |-> t.db,
                          tracks_added |-> acc.tracks_added
                                           + (IF t.analyzed_at_is_none THEN 1 ELSE 0),
                          tracks_skipped |-> acc.tracks_skipped
                                             + (IF t.analyzed_at_is_none THEN 0 ELSE 1),
                          created |-> acc.created + t.created],
                         tracks, k + 1)

SyncNone == [called |-> FALSE, playlist |-> <<>>, before |-> <<>>, result |-> <<>>, created |-> 0]

IdleSync == sync_db = <<>> /\ sync_last = SyncNone

InitSyncVars == sync_db = [s \in SourceIds |-> "absent"] /\ sync_last = SyncNone

\* sync.py 54-104 behind routers/yandex.py 89-109
sync_playlist ==
    \E playlist \in YandexPlaylists :
        IF playlist = <<>>
        THEN /\ sync_last' = [called |-> TRUE, playlist |-> playlist, before |-> sync_db,
                              result |-> SyncResult(0, 0, <<"not found">>), created |-> 0]
             /\ UNCHANGED <<sync_db, notSync>>
        ELSE LET done == sync_tracks([db |-> sync_db, tracks_added |-> 0,
                                      tracks_skipped |-> 0, created |-> 0],
                                     playlist[1], 1)
             IN  /\ sync_db' = done.db
                 /\ sync_last' = [called |-> TRUE, playlist |-> playlist, before |-> sync_db,
                                  result |-> SyncResult(done.tracks_added,
                                                        done.tracks_skipped, <<>>),
                                  created |-> done.created]
                 /\ UNCHANGED notSync

\* routers/analysis.py 155: analysing a stored track sets its analyzed_at
mark_analyzed ==
    \E s \in SourceIds :
        /\ sync_db[s] = "new"
        /\ sync_db' = [sync_db EXCEPT ![s] = "analyzed"]
        /\ UNCHANGED <<sync_last, notSync>>

(***************************************************************************)
(* packages/core/src/dj_ai_studio/yandex/client.py: the retry wrapper that *)
(* _init_sync_client installs around the request wrapper, one request.     *)
(***************************************************************************)
MaxRetries == 3
MaxAttempts == 5
RetryDelays == {0, 5}
\* what one call of original_wrapper does
WrapperOutcomes == {"result", "NetworkError", "OtherError"}

\* client.py 22-29
YandexClientConfig == [max_retries : 0..MaxRetries, retry_delay : RetryDelays]

\* client.py 63: whether a NetworkError is followed by another attempt
retries_again(max_retries, tries) == max_retries = 0 \/ tries < max_retries

IdleRetry ==
    /\ rt_config = [max_retries |-> 0, retry_delay |-> 0]
    /\ rt_tries = 0 /\ rt_calls = 0 /\ rt_slept = 0 /\ rt_pc = "idle"

\* client.py 54-58: the wrapper is entered with tries = 0
InitRetryVars ==
    /\ rt_config \in YandexClientConfig
    /\ rt_tries = 0 /\ rt_calls = 0 /\ rt_slept = 0 /\ rt_pc = "call"

\* client.py 59-67: one pass of the while loop up to the sleep
RetryCall ==
    \E outcome \in WrapperOutcomes :
        /\ rt_pc = "call"
        /\ rt_calls < MaxAttempts
        /\ rt_calls' = rt_calls + 1
        /\ IF outcome = "result"
           THEN rt_pc' = "returned" /\ rt_tries' = rt_tries
           ELSE IF outcome = "OtherError"
           THEN rt_pc' = "raised OtherError" /\ rt_tries' = rt_tries
           ELSE IF retries_again(rt_config.max_retries, rt_tries)
           THEN rt_pc' = "sleep" /\ rt_tries' = rt_tries + 1
           ELSE rt_pc' = "raised NetworkError" /\ rt_tries' = rt_tries
        /\ UNCHANGED <<rt_config, rt_slept, notRetry>>

\* client.py 65-66: time.sleep(retry_delay), then continue
RetrySleep ==
    /\ rt_pc = "sleep"
    /\ rt_slept' = rt_slept + rt_config.retry_delay
    /\ rt_pc' = "call"
    /\ UNCHANGED <<rt_config, rt_tries, rt_calls, notRetry>>

(***************************************************************************)
(* client.py: _get_client under concurrent coroutines of one event loop.   *)
(* A coroutine runs without interruption up to its next await; the only    *)
(* await of _get_client is asyncio.to_thread(self._init_sync_client).      *)
(* The k-th Client that _init_sync_client builds is the number k; 0 is     *)
(* None.                                                                   *)
(***************************************************************************)
MaxTasks == 3
MaxInits == 3
MaxCloses == 1
Tasks == 1..MaxTasks

IdleClient ==
    /\ cl_client = 0 /\ cl_pc = <<>> /\ cl_got = <<>> /\ cl_inits = 0 /\ cl_closes = 0

\* client.py 39-46: __init__ leaves _client None
InitClientVars ==
    /\ cl_client = 0
    /\ cl_pc = [t \in Tasks |-> "idle"]
    /\ cl_got = [t \in Tasks |-> 0]
    /\ cl_inits = 0 /\ cl_closes = 0

\* client.py 74-76: the test of self._client, up to the await or the return
GetClientEnter(t) ==
    /\ cl_pc[t] = "idle"
    /\ IF cl_client = 0
       THEN /\ cl_inits < MaxInits
            /\ cl_pc' = [cl_pc EXCEPT ![t] = "init"]
            /\ cl_got' = cl_got
       ELSE /\ cl_pc' = [cl_pc EXCEPT ![t] = "done"]
            /\ cl_got' = [cl_got EXCEPT ![t] = cl_client]
    /\ UNCHANGED <<cl_client, cl_inits, cl_closes, notClient>>

\* client.py 75-76: the thread that ran _init_sync_client has finished; the
\* coroutine stores the new Client and returns self._client
GetClientResume(t) ==
    /\ cl_pc[t] = "init"
    /\ cl_inits' = cl_inits + 1
    /\ cl_client' = cl_inits + 1
    /\ cl_got' = [cl_got EXCEPT ![t] = cl_inits + 1]
    /\ cl_pc' = [cl_pc EXCEPT ![t] = "done"]
    /\ UNCHANGED <<cl_closes, notClient>>

\* the method that awaited _get_client returns; the task may call again
MethodReturn(t) ==
    /\ cl_pc[t] = "done"
    /\ cl_pc' = [cl_pc EXCEPT ![t] = "idle"]
    /\ cl_got' = [cl_got EXCEPT ![t] = 0]
    /\ UNCHANGED <<cl_client, cl_inits, cl_closes, notClient>>

\* client.py 235-237
close ==
    /\ cl_closes < MaxCloses
    /\ cl_closes' = cl_closes + 1
    /\ cl_client' = 0
    /\ UNCHANGED <<cl_pc, cl_got, cl_inits, notClient>>

(***************************************************************************)
(* scripts/dj: the two key tables of the scripts, recommend_tracks's       *)
(* CAMELOT_TO_KEY and key_detector's CAMELOT_WHEEL, looked up one after    *)
(* the other.                                                              *)
(***************************************************************************)
\* scripts/dj/recommend_tracks.py 23-48
CAMELOT_TO_KEY ==
    [c \in CamelotCodes |->
        CASE c = "1A" -> "Am"    [] c = "1B" -> "C"
          [] c = "2A" -> "Em"    [] c = "2B" -> "G"
          [] c = "3A" -> "Bm"    [] c = "3B" -> "D"
          [] c = "4A" -> "F#m"   [] c = "4B" -> "A"
          [] c = "5A" -> "C#m"   [] c = "5B" -> "E"
          [] c = "6A" -> "G#m"   [] c = "6B" -> "B"
          [] c = "7A" -> "D#m"   [] c = "7B" -> "F#"
          [] c = "8A" -> "A#m"   [] c = "8B" -> "C#"
          [] c = "9A" -> "Fm"    [] c = "9B" -> "G#"
          [] c = "10A" -> "Cm"   [] c = "10B" -> "D#"
          [] c = "11A" -> "Gm"   [] c = "11B" -> "A#"
          [] c = "12A" -> "Dm"   [] c = "12B" -> "F"]

\* the key names CAMELOT_WHEEL has an entry for
ScriptKeys ==
    {"C", "C#", "D", "D#", "E", "F", "F#", "G", "G#", "A", "A#", "B",
     "Cm", "C#m", "Dm", "D#m", "Em", "Fm", "F#m", "Gm", "G#m", "Am", "A#m", "Bm"}

\* scripts/dj/key_detector.py 19-44
CAMELOT_WHEEL ==
    [k \in ScriptKeys |->
        CASE k = "C" -> "8B"     [] k = "Cm" -> "5A"
          [] k = "C#" -> "3B"    [] k = "C#m" -> "12A"
          [] k = "D" -> "10B"    [] k = "Dm" -> "7A"
          [] k = "D#" -> "5B"    [] k = "D#m" -> "2A"
          [] k = "E" -> "12B"    [] k = "Em" -> "9A"
          [] k = "F" -> "7B"     [] k = "Fm" -> "4A"
          [] k = "F#" -> "2B"    [] k = "F#m" -> "11A"
          [] k = "G" -> "9B"     [] k = "Gm" -> "6A"
          [] k = "G#" -> "4B"    [] k = "G#m" -> "1A"
          [] k = "A" -> "11B"    [] k = "Am" -> "8A"
          [] k = "A#" -> "6B"    [] k = "A#m" -> "3A"
          [] k = "B" -> "1B"     [] k = "Bm" -> "10A"]

IdleTables == tb_in = <<>> /\ tb_mid = <<>> /\ tb_out = <<>>

\* a lookup chain starts from a code or from a key name
InitTablesVars ==
    /\ tb_in \in {<<"code", c>> : c \in CamelotCodes} \cup {<<"key", k>> : k \in ScriptKeys}
    /\ tb_mid = <<>> /\ tb_out = <<>>

\* the first lookup: CAMELOT_TO_KEY[c], or CAMELOT_WHEEL[k]
LookupFirst ==
    /\ tb_mid = <<>>
    /\ tb_mid' = IF tb_in[1] = "code" THEN <<CAMELOT_TO_KEY[tb_in[2]]>>
                 ELSE <<CAMELOT_WHEEL[tb_in[2]]>>
    /\ UNCHANGED <<tb_in, tb_out, notTables>>

\* the second lookup, in the other table, of what the first returned
LookupSecond ==
    /\ tb_mid # <<>> /\ tb_out = <<>>
    /\ tb_out' = IF tb_in[1] = "code" THEN <<CAMELOT_WHEEL[tb_mid[1]]>>
                 ELSE <<CAMELOT_TO_KEY[tb_mid[1]]>>
    /\ UNCHANGED <<tb_in, tb_mid, notTables>>

IdleService == IdleStore /\ IdleBatch /\ IdleUpload /\ IdleAsync
IdleLibrary ==
    IdleSet /\ IdlePlaylist /\ IdleMcp /\ IdleSync /\ IdleRetry /\ IdleClient /\ IdleTables
IdleCore == IdleCompat /\ IdleConv /\ IdleChain /\ IdleScore /\ IdleEnergy /\ IdleBpm /\ IdleKey

InitSet == InitSetVars /\ IdlePlaylist /\ IdleMcp /\ IdleSync /\ IdleRetry /\ IdleClient
    /\ IdleTables /\ IdleCore /\ IdleService
NextSet == Set_add_track \/ Set_remove_track \/ Set_reorder_track
SpecSet == InitSet /\ [][NextSet]_vars

InitPlaylist == InitPlaylistVars /\ IdleSet /\ IdleMcp /\ IdleSync /\ IdleRetry /\ IdleClient
    /\ IdleTables /\ IdleCore /\ IdleService
NextPlaylist == Playlist_add_track \/ Playlist_remove_track \/ Playlist_reorder_track
SpecPlaylist == InitPlaylist /\ [][NextPlaylist]_vars

InitMcp == InitMcpVars /\ IdleSet /\ IdlePlaylist /\ IdleSync /\ IdleRetry /\ IdleClient
    /\ IdleTables /\ IdleCore /\ IdleService
NextMcp == add_track_to_set
SpecMcp == InitMcp /\ [][NextMcp]_vars

InitSync == InitSyncVars /\ IdleSet /\ IdlePlaylist /\ IdleMcp /\ IdleRetry /\ IdleClient
    /\ IdleTables /\ IdleCore /\ IdleService
NextSync == sync_playlist \/ mark_analyzed
SpecSync == InitSync /\ [][NextSync]_vars

InitRetry == InitRetryVars /\ IdleSet /\ IdlePlaylist /\ IdleMcp /\ IdleSync /\ IdleClient
    /\ IdleTables /\ IdleCore /\ IdleService
NextRetry == RetryCall \/ RetrySleep
SpecRetry == InitRetry /\ [][NextRetry]_vars

InitClient == InitClientVars /\ IdleSet /\ IdlePlaylist /\ IdleMcp /\ IdleSync /\ IdleRetry
    /\ IdleTables /\ IdleCore /\ IdleService
NextClient ==
    \/ \E t \in Tasks : GetClientEnter(t) \/ GetClientResume(t) \/ MethodReturn(t)
    \/ close
SpecClient == InitClient /\ [][NextClient]_vars

InitTables == InitTablesVars /\ IdleSet /\ IdlePlaylist /\ IdleMcp /\ IdleSync /\ IdleRetry
    /\ IdleClient /\ IdleCore /\ IdleService
NextTables == LookupFirst \/ LookupSecond
SpecTables == InitTables /\ [][NextTables]_vars


InitStore == InitStoreVars /\ IdleBatch /\ IdleUpload /\ IdleAsync
    /\ IdleCompat /\ IdleConv /\ IdleChain /\ IdleScore /\ IdleEnergy /\ IdleBpm /\ IdleKey
    /\ IdleLibrary
NextStore == CreateTrack \/ UpdateTrack \/ DeleteTrack \/ AnalyzeTrack \/ SyncTrack
SpecStore == InitStore /\ [][NextStore]_vars

InitBatch == InitBatchVars /\ IdleStore /\ IdleUpload /\ IdleAsync
    /\ IdleCompat /\ IdleConv /\ IdleChain /\ IdleScore /\ IdleEnergy /\ IdleBpm /\ IdleKey
    /\ IdleLibrary
NextBatch == BatchStart \/ BatchItem \/ BatchReturn
SpecBatch == InitBatch /\ [][NextBatch]_vars

InitUpload == InitUploadVars /\ IdleStore /\ IdleBatch /\ IdleAsync
    /\ IdleCompat /\ IdleConv /\ IdleChain /\ IdleScore /\ IdleEnergy /\ IdleBpm /\ IdleKey
    /\ IdleLibrary
NextUpload == AnalyzeFile
SpecUpload == InitUpload /\ [][NextUpload]_vars

InitAsync == InitAsyncVars /\ IdleStore /\ IdleBatch /\ IdleUpload
    /\ IdleCompat /\ IdleConv /\ IdleChain /\ IdleScore /\ IdleEnergy /\ IdleBpm /\ IdleKey
    /\ IdleLibrary
NextAsync ==
    \E c \in DOMAIN an_input :
        \/ AsyncCall(c)
        \/ WorkerCreateTemp(c)
        \/ WorkerWrite(c)
        \/ WorkerAnalyze(c)
        \/ WorkerClose(c)
SpecAsync == InitAsync /\ [][NextAsync]_vars

InitCompat == InitCompatVars /\ IdleConv /\ IdleChain /\ IdleEnergy /\ IdleBpm /\ IdleKey
    /\ IdleScore /\ IdleService /\ IdleLibrary
NextCompat == CallCompat
SpecCompat == InitCompat /\ [][NextCompat]_vars

InitConv == InitConvVars /\ IdleCompat /\ IdleChain /\ IdleEnergy /\ IdleBpm /\ IdleKey
    /\ IdleScore /\ IdleService /\ IdleLibrary
NextConv == ConvFirst \/ ConvSecond
SpecConv == InitConv /\ [][NextConv]_vars

InitChain == InitChainVars /\ IdleCompat /\ IdleConv /\ IdleEnergy /\ IdleBpm /\ IdleKey
    /\ IdleScore /\ IdleService /\ IdleLibrary
NextChain == ChainSeed \/ ChainStep \/ ChainReturn
SpecChain == InitChain /\ [][NextChain]_vars

InitScore ==
    InitScoreVars /\ IdleCompat /\ IdleConv /\ IdleChain /\ IdleEnergy /\ IdleBpm /\ IdleKey
    /\ IdleService /\ IdleLibrary
NextScore == CallScore
SpecScore == InitScore /\ [][NextScore]_vars

InitEnergy == InitEnergyVars /\ IdleCompat /\ IdleConv /\ IdleChain /\ IdleBpm /\ IdleKey
    /\ IdleScore /\ IdleService /\ IdleLibrary
NextEnergy == CallEnergy
SpecEnergy == InitEnergy /\ [][NextEnergy]_vars

InitBpm == InitBpmVars /\ IdleCompat /\ IdleConv /\ IdleChain /\ IdleEnergy /\ IdleKey
    /\ IdleScore /\ IdleService /\ IdleLibrary
NextBpm == CallBpm
SpecBpm == InitBpm /\ [][NextBpm]_vars

InitKey ==
    InitKeyVars /\ IdleCompat /\ IdleConv /\ IdleChain /\ IdleEnergy /\ IdleBpm
    /\ IdleScore /\ IdleService /\ IdleLibrary
NextKey == CallKey
SpecKey == InitKey /\ [][NextKey]_vars

(***************************************************************************)
(* Claims                                                                  *)
(***************************************************************************)
NumChars ==
    << <<"1">>, <<"2">>, <<"3">>, <<"4">>, <<"5">>, <<"6">>, <<"7">>, <<"8">>,
       <<"9">>, <<"1", "0">>, <<"1", "1">>, <<"1", "2">> >>
WheelCode(n, L) == NumChars[n] \o <<L>>
ValidCodes == {WheelCode(n, L) : n \in 1..12, L \in {"A", "B"}}
SeqToSet(s) == {s[i] : i \in 1..Len(s)}
WheelUp(n) == IF n = 12 THEN 1 ELSE n + 1
WheelDown(n) == IF n = 1 THEN 12 ELSE n - 1
Opposite(L) == IF L = "A" THEN "B" ELSE "A"

\* C1: for each of the 24 valid codes nL, _get_compatible_camelot returns a
\* list of exactly 4 distinct codes: nL itself, the next position on the wheel
\* with the same letter, the previous position with the same letter (both
\* wrapping between 12 and 1), and n with the opposite letter.
C1_CompatibleFour ==
    \A n \in 1..12, L \in {"A", "B"} :
        (cam_in = PyStr(WheelCode(n, L)) /\ cam_out # NotCalled) =>
            /\ cam_out.kind = "return"
            /\ Len(cam_out.val) = 4
            /\ Cardinality(SeqToSet(cam_out.val)) = 4
            /\ SeqToSet(cam_out.val) =
                   {WheelCode(n, L), WheelCode(WheelUp(n), L),
                    WheelCode(WheelDown(n), L), WheelCode(n, Opposite(L))}

C1_Witness ==
    /\ cam_in = PyStr(<<"1", "A">>)
    /\ cam_out = Return(<< <<"1", "A">>, <<"2", "A">>, <<"1", "2", "A">>, <<"1", "B">> >>)

\* The tracks of the input all have a key and a BPM recorded.
AllKnown == \A i \in 1..Len(ch_tracks) :
                ch_tracks[i].camelot # "" /\ BpmTruthy(ch_tracks[i].bpm)
\* The loop is entered with a track still to place and nothing to pick: the
\* iteration changes nothing, so neither does any later one.
ChainSpins ==
    /\ ch_pc = "loop"
    /\ Len(chain) < Len(ch_tracks)
    /\ Candidates(by_camelot) = <<>>
IsPermutation(out, in) ==
    /\ Len(out) = Len(in)
    /\ \A i \in 1..Len(in) : Cardinality({j \in 1..Len(out) : out[j] = in[i]}) = 1

\* C2: for a non-empty list of tracks that all have a code and a BPM, under
\* each strategy build_harmonic_chain returns (it neither raises nor loops
\* without placing a track) and the chain returned is a permutation of the
\* input: same length, every track exactly once.
C2_ChainIsPermutation ==
    (ch_tracks # <<>> /\ AllKnown) =>
        /\ ch_pc # "raised"
        /\ ~ChainSpins
        /\ ch_pc = "done" => IsPermutation(chain, ch_tracks)

C2_Witness ==
    /\ ch_pc = "done" /\ AllKnown /\ Len(ch_tracks) = 3
    /\ ch_strategy = "plateau"
    /\ chain = <<ch_tracks[2], ch_tracks[3], ch_tracks[1]>>

\* C3: build_harmonic_chain terminates with every input track placed exactly
\* once for every input list, also when some or all tracks have no key: it
\* never raises, no loop iteration fails to place a track, and what it
\* returns is a permutation of the input.
C3_AlwaysPlacesAll ==
    (ch_tracks # <<>> /\ \A i \in 1..Len(ch_tracks) : BpmTruthy(ch_tracks[i].bpm)) =>
        /\ ch_pc # "raised"
        /\ ~ChainSpins
        /\ ch_pc = "done" => IsPermutation(chain, ch_tracks)

\* C4: code -> key name -> code is the identity on each of the 24 Camelot codes.
C4_RoundTrip ==
    (conv_pc = "done" /\ conv_dir = "code" /\ conv_in \in CamelotCodes) =>
        conv_out = conv_in

C4_Witness ==
    /\ conv_pc = "done" /\ conv_dir = "code"
    /\ conv_in = "3B" /\ conv_mid = "Db" /\ conv_out = "3B"

\* C5: for every input that is not one of the 24 valid codes,
\* _get_compatible_camelot returns an empty list and does not raise.
C5_InvalidGivesEmpty ==
    (cam_out # NotCalled /\ (cam_in.none \/ cam_in.s \notin ValidCodes)) =>
        cam_out = Return(<<>>)

\* C6: the energy level calculate_energy returns is an integer in 1..10 for
\* every combination of feature values, also far outside the ranges.
C6_EnergyInRange ==
    en_out # <<>> => en_out[1].energy \in 1..10

C6_Witness ==
    /\ en_out # <<>>
    /\ en_in[1].rms_db = 40 /\ en_in[1].centroid = 30000
    /\ en_in[1].rolloff = 40000 /\ en_in[1].zcr = 900
    /\ en_out[1].energy = 10

\* C7: the energy level equals round(clamp(raw_score * 9 + 1, 1, 10)), the
\* integer nearest to the clamped value (2.8 gives 3).
C7_EnergyIsRounded ==
    en_out # <<>> =>
        LET raw == raw_score(en_in[1])
        IN  en_out[1].energy =
                RoundHalfEven(Clip(9 * raw + RawDen, RawDen, 10 * RawDen), RawDen)

\* C8: with fewer than 2 beat events detect_bpm returns a BPMResult whose
\* confidence is exactly 0, whatever the tempo reported, and does not raise.
C8_FewBeatsZeroConfidence ==
    (bpm_in # <<>> /\ bpm_out # BpmNotCalled /\ Len(bpm_in[1].beat_times) < 2) =>
        /\ bpm_out.kind = "return"
        /\ bpm_out.confidence = 0
        /\ ~bpm_out.confidence_nan

C8_Witness ==
    /\ bpm_in # <<>> /\ bpm_in[1].beat_times = <<0>> /\ bpm_in[1].tempo = 12804
    /\ bpm_out.kind = "return" /\ bpm_out.confidence = 0 /\ bpm_out.bpm = 1280

\* The largest of the 24 scores of a result, and the second largest (equal to
\* the largest when two candidates share it).
MaxOf(S) == CHOOSE x \in S : \A y \in S : y <= x
TopCorr(r) == MaxOf({r.all_correlations[k].corr : k \in 1..24})
SecondCorr(r) ==
    LET top == TopCorr(r)
        top_index == CHOOSE k \in 1..24 : r.all_correlations[k].corr = top
    IN  MaxOf({r.all_correlations[k].corr : k \in (1..24) \ {top_index}})
\* The wheel position of a major tonic by fifths from C = 8; a minor tonic
\* has the position of its relative major, three semitones up.
MajorPosition(pitch_class) == ((7 * pitch_class + 7) % 12) + 1
MinorPosition(pitch_class) == MajorPosition((pitch_class + 3) % 12)
TonicOf(r) ==
    CHOOSE p \in 0..11 :
        NOTE_NAMES[p + 1] = (IF r.is_minor THEN Front(r.key) ELSE r.key)

\* C9: detect_key reports a tonic/mode pair whose correlation is the maximum
\* of the 24 scores, and the fields of the result describe that pair: key
\* ends in "m" iff is_minor, the camelot letter is A iff is_minor, and camelot
\* is the wheel code of the tonic (C major 8B, A minor 8A).
C9_KeyIsArgmax ==
    key_out # <<>> =>
        LET r == key_out[1]
        IN  /\ \E k \in 1..24 :
                   /\ r.all_correlations[k].name = r.key
                   /\ r.all_correlations[k].corr = TopCorr(r)
            /\ r.is_minor <=> (Last(r.key) = "m")
            /\ Last(r.camelot) = (IF r.is_minor THEN "A" ELSE "B")
            /\ r.camelot =
                   (IF r.is_minor THEN WheelCode(MinorPosition(TonicOf(r)), "A")
                    ELSE WheelCode(MajorPosition(TonicOf(r)), "B"))

C9_Witness ==
    /\ key_out # <<>>
    /\ key_out[1].key = <<"A", "m">> /\ key_out[1].is_minor
    /\ key_out[1].camelot = <<"8", "A">>
    /\ key_out[1].confidence > 0

\* The confidence formula on the two largest scores, as a fraction: the
\* numerator and the denominator of clamp(2 * (top - second) / (top + eps), 0, 1)
\* in millionths.
GapDen(r) == TopCorr(r) * One + 1
GapNum(r) ==
    LET top == TopCorr(r)
    IN  Clip(2 * (top - SecondCorr(r)) * One, 0, top * One + 1)

\* C10 as stated: the confidence equals clamp(2 * (top - second) / (top + eps), 0, 1).
C10_ConfidenceIsGap ==
    key_out # <<>> =>
        LET r == key_out[1]
        IN  r.confidence * GapDen(r) = 100 * GapNum(r)

\* C10 amended: the confidence is clamp(2 * (top - second) / (top + eps), 0, 1)
\* rounded to two decimals; it is 0 when the two largest scores are equal and
\* it stays within [0, 1].
C10_ConfidenceIsRoundedGap ==
    key_out # <<>> =>
        LET r == key_out[1]
        IN  /\ r.confidence = RoundHalfEven(100 * GapNum(r), GapDen(r))
            /\ (TopCorr(r) = SecondCorr(r)) => r.confidence = 0
            /\ r.confidence \in 0..100

C10_Witness ==
    /\ key_out # <<>>
    /\ TopCorr(key_out[1]) > SecondCorr(key_out[1])
    /\ key_out[1].confidence > 0
    /\ key_out[1].confidence * GapDen(key_out[1]) # 100 * GapNum(key_out[1])

\* The codes of the wheel as the chain builder's dictionary keys, by number
\* and letter.
CodeName(n, L) ==
    IF L = "A"
    THEN <<"1A", "2A", "3A", "4A", "5A", "6A", "7A", "8A", "9A", "10A", "11A", "12A">>[n]
    ELSE <<"1B", "2B", "3B", "4B", "5B", "6B", "7B", "8B", "9B", "10B", "11B", "12B">>[n]
NumberOf(code) == CHOOSE n \in 1..12 : \E L \in {"A", "B"} : CodeName(n, L) = code
LetterOf(code) == CHOOSE L \in {"A", "B"} : \E n \in 1..12 : CodeName(n, L) = code
ExpectedKey(cur, cand) ==
    LET n == NumberOf(cur)
        L == LetterOf(cur)
    IN  IF cand = cur THEN 60
        ELSE IF cand = CodeName(WheelUp(n), L) THEN 50
        ELSE IF cand = CodeName(WheelDown(n), L) THEN 40
        ELSE IF cand = CodeName(n, Opposite(L)) THEN 45
        ELSE 10
ExpectedTempo(d) ==
    IF d = 0 THEN 40 ELSE IF d <= 2 THEN 35 ELSE IF d <= 4 THEN 25
    ELSE IF d <= 6 THEN 15 ELSE 5
ExpectedBonus(strategy, cur, cand) ==
    IF strategy = "progressive" THEN (IF cand.bpm[1] > cur.bpm[1] THEN 10 ELSE 0)
    ELSE IF strategy = "plateau"
         THEN (IF cand.bpm = cur.bpm /\ cand.camelot = cur.camelot THEN 15 ELSE 0)
    ELSE 0

\* C11: for a current track and a candidate that both carry one of the 24
\* codes and a BPM, the score the candidate is ranked with is the key
\* component (60 same code, 50 one step up the wheel with the same letter,
\* 40 one step down, 45 same number with the other letter, 10 otherwise) plus
\* the tempo component (40, 35, 25, 15, 5 for a BPM difference of 0, <= 2,
\* <= 4, <= 6, more) plus the strategy bonus (10 under progressive iff the
\* candidate is faster, 15 under plateau iff BPM and code are both the same,
\* nothing under journey); computing it raises nothing.
C11_ScoreBreakdown ==
    sc_out # <<>> =>
        LET cur == sc_in[1].current
            cand == sc_in[1].entry.track
            d == Abs(cand.bpm[1] - cur.bpm[1])
        IN  sc_out[1] = Score(ExpectedKey(cur.camelot, cand.camelot) + ExpectedTempo(d)
                              + ExpectedBonus(sc_in[1].strategy, cur, cand))

\* 12A -> 11A under progressive with a faster candidate: 40 + 25 + 10
C11_Witness ==
    /\ sc_out = <<Score(75)>>
    /\ sc_in[1].current.camelot = "12A" /\ sc_in[1].entry.camelot = "11A"
    /\ sc_in[1].current.bpm = <<120>> /\ sc_in[1].entry.track.bpm = <<124>>
    /\ sc_in[1].strategy = "progressive"

\* The input tracks not yet in the chain, by their index in the input
RemainingIdx == {i \in 1..Len(ch_tracks) : ~InSeq(ch_tracks[i], chain)}
\* The index at which the key of track i first appears in the input
GroupFirst(i) ==
    CHOOSE j \in 1..i :
        /\ ch_tracks[j].camelot = ch_tracks[i].camelot
        /\ \A k \in 1..(j - 1) : ch_tracks[k].camelot # ch_tracks[i].camelot
\* Track i is met before track j: its key group appeared earlier in the
\* input, or they share the group and i comes earlier in the input.
MetBefore(i, j) ==
    \/ GroupFirst(i) < GroupFirst(j)
    \/ GroupFirst(i) = GroupFirst(j) /\ i < j
RankOf(i) ==
    CandidateScore(current[1], [camelot |-> ch_tracks[i].camelot, track |-> ch_tracks[i]],
                   ch_strategy).score

\* C12: with codes and BPMs known, every iteration of the loop that still has
\* a track to place appends exactly one remaining track, one whose score
\* against the current track is maximal among the remaining ones, and among
\* several of that score the one met first (key groups in order of first
\* appearance in the input, input order within a group); the step is thereby
\* a function of the state, the same on every run.
C12_FirstMaximumWins ==
    [][(ch_pc = "loop" /\ AllKnown /\ Len(chain) < Len(ch_tracks)) =>
          \E i \in RemainingIdx :
              /\ chain' = Append(chain, ch_tracks[i])
              /\ current' = <<ch_tracks[i]>>
              /\ \A j \in RemainingIdx \ {i} :
                     \/ RankOf(j) < RankOf(i)
                     \/ RankOf(j) = RankOf(i) /\ MetBefore(i, j)]_vars

\* 8A@120, 8B@120, 8A@123 under journey: after the first track both others
\* score 85, and the third is met first because its group is the older one.
C12_Witness ==
    /\ ch_pc = "done" /\ ch_strategy = "journey"
    /\ ch_tracks = << [position |-> 1, camelot |-> "8A", bpm |-> <<120>>],
                      [position |-> 2, camelot |-> "8B", bpm |-> <<120>>],
                      [position |-> 3, camelot |-> "8A", bpm |-> <<123>>] >>
    /\ chain = <<ch_tracks[1], ch_tracks[3], ch_tracks[2]>>

\* The number of input tracks that carry the code c
GroupSize(c) == Cardinality({i \in 1..Len(ch_tracks) : ch_tracks[i].camelot = c})
FirstWithCode(c) ==
    CHOOSE i \in 1..Len(ch_tracks) :
        /\ ch_tracks[i].camelot = c
        /\ \A k \in 1..(i - 1) : ch_tracks[k].camelot # c
HasCode(c) == \E i \in 1..Len(ch_tracks) : ch_tracks[i].camelot = c

\* C13: once the chain has its first track, that track is the seed: with a
\* start_key that some input track carries, the first input track with that
\* code; otherwise (no start_key, or no track with it) the first input track
\* of a key group that no other key group exceeds in size.
C13_SeedRule ==
    chain # <<>> =>
        IF ch_start_key # "" /\ HasCode(ch_start_key)
        THEN chain[1] = ch_tracks[FirstWithCode(ch_start_key)]
        ELSE \E i \in 1..Len(ch_tracks) :
                 /\ ch_tracks[i].camelot # ""
                 /\ chain[1] = ch_tracks[i]
                 /\ i = FirstWithCode(ch_tracks[i].camelot)
                 /\ \A j \in 1..Len(ch_tracks) :
                        ch_tracks[j].camelot # "" =>
                            GroupSize(ch_tracks[j].camelot) <= GroupSize(ch_tracks[i].camelot)

\* 8A, 9A, 9A without a start key: the chain starts with the second track
C13_Witness ==
    /\ ch_pc = "done" /\ ch_start_key = "" /\ Len(ch_tracks) = 3
    /\ ch_tracks[1].camelot = "8A" /\ ch_tracks[2].camelot = "9A"
    /\ ch_tracks[3].camelot = "9A"
    /\ chain[1] = ch_tracks[2]

\* The codes _get_compatible_camelot returns for the valid code a
CompatOf(a) == SeqToSet(_get_compatible_camelot(PyStr(a)).val)

\* C14: over the 24 valid codes, "b is in _get_compatible_camelot(a)" is
\* reflexive and symmetric, and it is not transitive: for the code a that was
\* looked up, a is in the answer, every valid b is in the answer exactly when
\* a is in the answer for b, and some b of the answer has a compatible code c
\* that is not in the answer for a.
C14_ReflexiveSymmetricNotTransitive ==
    \A a \in ValidCodes :
        (cam_in = PyStr(a) /\ cam_out # NotCalled) =>
            /\ cam_out = _get_compatible_camelot(PyStr(a))
            /\ a \in SeqToSet(cam_out.val)
            /\ \A b \in ValidCodes : (b \in SeqToSet(cam_out.val)) <=> (a \in CompatOf(b))
            /\ \E b \in ValidCodes, c \in ValidCodes :
                   /\ b \in SeqToSet(cam_out.val)
                   /\ c \in CompatOf(b)
                   /\ c \notin SeqToSet(cam_out.val)

\* 9A is compatible with 8A and 10A with 9A, but 10A is not with 8A
C14_Witness ==
    /\ cam_in = PyStr(<<"8", "A">>) /\ cam_out.kind = "return"
    /\ <<"9", "A">> \in SeqToSet(cam_out.val)
    /\ <<"1", "0", "A">> \in CompatOf(<<"9", "A">>)
    /\ <<"1", "0", "A">> \notin SeqToSet(cam_out.val)

\* C15: whatever sequence of POST /tracks, PATCH /tracks/{id}, analyze_track
\* write-backs and Yandex syncs has run, the camelot stored for a track is one
\* of the 24 valid codes.
C15_StoredCamelotValid ==
    db_track # <<>> => db_track[1].camelot \in ValidCodes

\* C16: in a batch within the size limit a failure of one item stays with
\* that item: no exception leaves the handler, the loop goes on to the
\* remaining ids, and the response that is returned has an entry for every
\* requested id, the failed ones included.
C16_FailuresIsolated ==
    Len(batch_items) <= BatchLimit =>
        /\ batch_pc # "raised"
        /\ batch_pc = "returned" =>
               \A i \in 1..Len(batch_items) :
                   \E k \in 1..Len(batch_results) : batch_results[k].item = i

\* The filename has an extension, the part after its last dot, and that
\* extension is in the allow-list when letter case is ignored.
HasAllowedExtension(name) ==
    /\ ~name.none
    /\ \E i \in 1..Len(name.s) :
           /\ name.s[i] = "."
           /\ \A j \in (i + 1)..Len(name.s) : name.s[j] # "."
           /\ Lower(SubSeq(name.s, i + 1, Len(name.s))) \in AllowedExtensions

\* C17: once POST /analysis/file has answered, the analyzer was invoked only
\* if the filename has an extension of the allow-list {mp3, flac, wav, m4a,
\* ogg}, letter case ignored; every other upload, one without a filename or
\* without a dot included, was answered with 400 and its content was neither
\* read nor analyzed.
C17_OnlyAllowedExtensions ==
    (up_status # 0 /\ ~HasAllowedExtension(up_file)) =>
        /\ up_status = 400
        /\ ~up_read
        /\ up_analyzed = <<>>

\* C18: when the beat tracker reports no tempo estimate (an empty tempo
\* array), detect_bpm does not return a BPMResult: it signals the failure
\* to its caller, and in particular never reports start_bpm as the tempo.
C18_EmptyTempoSignalsFailure ==
    (bpm_out # BpmNotCalled /\ bpm_in[1].shape = "empty") => bpm_out.kind # "return"

\* What the synchronous analysis returns for each signal, on its own
SyncResults ==
    [a \in AudioSignals |->
        _analyze_signal(load(a, AnalyzerSelf.analysis_duration), AnalyzerSelf.sample_rate)]
InputSignal(input) ==
    IF input.kind = "bytes" THEN input.data[1] ELSE InputFiles[input.path][1]

\* C19: calls of analyze_file_async and analyze_bytes_async that run at the
\* same time on one analyzer do not touch each other's state: each call
\* hands exactly one unit of work to a thread, no two calls hold the same
\* temporary file, the input files stay as they were, and under every
\* interleaving a call that has returned holds the result the synchronous
\* analysis gives for its own input.
C19_AsyncCallsIndependent ==
    /\ \A f \in DOMAIN InputFiles : f \in DOMAIN an_files /\ an_files[f] = InputFiles[f]
    /\ \A c \in DOMAIN an_input :
           /\ an_pc[c].offloaded = (IF an_pc[c].at = "new" THEN 0 ELSE 1)
           /\ \A d \in DOMAIN an_input \ {c} : an_tmp[c] # "" => an_tmp[c] # an_tmp[d]
           /\ an_pc[c].at = "done" =>
                  an_result[c] = <<SyncResults[InputSignal(an_input[c])]>>

\* Two analyze_bytes_async calls on different audio have both returned,
\* each with its own result
C19_Witness ==
    /\ Len(an_input) = 2
    /\ an_input[1].kind = "bytes" /\ an_input[2].kind = "bytes"
    /\ an_input[1].data = <<SignalA>> /\ an_input[2].data = <<SignalB>>
    /\ an_pc[1].at = "done" /\ an_pc[2].at = "done"
    /\ an_result[1] # an_result[2]
    /\ an_result[1][1].key.camelot = <<"8", "B">>

\* Every EnergyResult calculate_energy produces over the feature values of
\* the model
ProducedEnergyResults ==
    {calculate_energy(f) :
        f \in [rms_db : EnergyRmsDb, centroid : EnergyCentroids,
                rolloff : EnergyRolloffs, zcr : EnergyZcrs]}

\* C20: the energy level is a monotone non-decreasing function of the
\* raw_score field: for the result A just produced and any result B that
\* calculate_energy produces, A.raw_score <= B.raw_score implies
\* A.energy <= B.energy and B.raw_score <= A.raw_score implies
\* B.energy <= A.energy, so equal raw_score fields carry equal levels.
C20_LevelMonotoneInRawScoreField ==
    en_out # <<>> =>
        \A B \in ProducedEnergyResults :
            LET A == en_out[1]
            IN  /\ A.raw_score <= B.raw_score => A.energy <= B.energy
                /\ B.raw_score <= A.raw_score => B.energy <= A.energy

\* Every input of the model with the weighted score computed for it, before
\* it is rounded, and the result
ProducedEnergy ==
    {[raw |-> raw_score(f), result |-> calculate_energy(f)] :
        f \in [rms_db : EnergyRmsDb, centroid : EnergyCentroids,
                rolloff : EnergyRolloffs, zcr : EnergyZcrs]}

\* C20, as the code has it: the level is a monotone non-decreasing function
\* of the weighted score before rounding; the raw_score field is that score
\* rounded to three decimals, so a strictly smaller field implies a level
\* that is not greater, and two results with the same field have levels
\* that differ by at most one.
C20_LevelMonotoneInUnroundedScore ==
    en_out # <<>> =>
        \A p \in ProducedEnergy :
            LET A == en_out[1]
                B == p.result
                rawA == raw_score(en_in[1])
            IN  /\ rawA <= p.raw => A.energy <= B.energy
                /\ p.raw <= rawA => B.energy <= A.energy
                /\ A.raw_score < B.raw_score => A.energy <= B.energy
                /\ B.raw_score < A.raw_score => B.energy <= A.energy
                /\ A.raw_score = B.raw_score => Abs(A.energy - B.energy) <= 1

\* A result with raw_score 0.333 and level 4 while another result with the
\* same raw_score field has level 3
C20_Witness ==
    /\ en_out # <<>>
    /\ en_out[1].raw_score = 333 /\ en_out[1].energy = 4
    /\ \E B \in ProducedEnergyResults : B.raw_score = 333 /\ B.energy = 3

\* The chroma of a C major triad: equal energy in C, E and G, none elsewhere
TriadCEG == [i \in 1..12 |-> IF i \in {1, 5, 8} THEN 1 ELSE 0]

\* C21: for the chroma of the triad C, E, G detect_key returns key "C", not
\* minor, camelot "8B", and the correlation of the C major candidate is
\* strictly greater than each of the other 23.
C21_TriadIsCMajor ==
    (key_out # <<>> /\ key_in = TriadCEG) =>
        LET r == key_out[1]
        IN  /\ r.key = <<"C">>
            /\ ~r.is_minor
            /\ r.camelot = <<"8", "B">>
            /\ r.all_correlations[1].name = <<"C">>
            /\ \A k \in 2..24 : r.all_correlations[k].corr < r.all_correlations[1].corr

C21_Witness ==
    /\ key_out # <<>> /\ key_in = TriadCEG
    /\ key_out[1].key = <<"C">> /\ key_out[1].camelot = <<"8", "B">>
    /\ key_out[1].confidence > 0

SetPositionsOf(tracks) == {tracks[i].position : i \in 1..Len(tracks)}

\* C22: after every sequence of add_track, remove_track and reorder_track on
\* a validly constructed Set, the positions of set.tracks are exactly
\* 1..len(tracks), each taken by one track.
C22_PositionsSequential ==
    /\ SetPositionsOf(set_tracks) = 1..Len(set_tracks)
    /\ validate_track_positions(set_tracks)

\* a track in the middle of a set of three was removed and the rest closed up
C22_Witness ==
    /\ set_last.op = "remove_track" /\ set_last.ret # <<>>
    /\ set_last.args = <<2>>
    /\ Len(set_tracks) = MaxSetLen - 1
    /\ SetPositionsOf(set_tracks) = 1..(MaxSetLen - 1)

\* C26: in every Set the constructor accepts, and after every sequence of
\* add_track, remove_track and reorder_track, the track at list index i has
\* position i + 1.
C26_ListOrderAgrees ==
    \A i \in 1..Len(set_tracks) : set_tracks[i].position = i

\* C27: reorder_track returns False and changes neither tracks nor updated_at
\* whenever from_position or to_position is outside 1..len(tracks), and it
\* returns True only when a track at from_position exists and ends up at
\* to_position.
C27_ReorderContract ==
    [][set_last'.op = "reorder_track" =>
          LET from_position == set_last'.args[1]
              to_position == set_last'.args[2]
              n == Len(set_tracks)
              outside(p) == p < 1 \/ p > n
          IN  /\ (outside(from_position) \/ outside(to_position)) =>
                     /\ set_last'.ret = <<FALSE>>
                     /\ set_tracks' = set_tracks
                     /\ ~set_last'.updated
              /\ set_last'.ret = <<TRUE>> =>
                     \E i \in 1..n :
                         /\ set_tracks[i].position = from_position
                         /\ to_position \in 1..Len(set_tracks')
                         /\ set_tracks'[to_position].track_id = set_tracks[i].track_id
                         /\ set_tracks'[to_position].position = to_position]_vars

C24_AppendsAtNextPosition ==
    (/\ mcp_last.kind # "none"
     /\ mcp_last.args[1] = "set1" /\ mcp_last.args[2] # "no-track"
     /\ mcp_last.args[3] = <<>>) =>
        /\ mcp_last.kind = "return"
        /\ mcp_rows # <<>>
        /\ mcp_last.val =
               <<MaxOf({0} \cup {mcp_rows[i].position : i \in 1..(Len(mcp_rows) - 1)}) + 1>>
        /\ mcp_rows[Len(mcp_rows)].position = mcp_last.val[1]

\* C25: in sync_playlist a playlist track whose source id already has a row
\* is skipped: the call creates no row for it and counts it in
\* tracks_skipped, and tracks_added is the number of rows the call created
\* (so a second sync of the same playlist reports tracks_added = 0).
C25_ExistingTracksSkipped ==
    (sync_last.called /\ sync_last.playlist # <<>>) =>
        LET tracks == sync_last.playlist[1]
            existed == {k \in 1..Len(tracks) : sync_last.before[tracks[k]] # "absent"}
        IN  /\ sync_last.result.tracks_added = sync_last.created
            /\ sync_last.result.tracks_skipped >= Cardinality(existed)

\* C28: for every max_retries >= 0 the retry wrapper calls the wrapped
\* request at most max_retries + 1 times: at most max_retries retries after
\* NetworkError, then the error is re-raised; any other exception ends the
\* call at the first attempt.
C28_AttemptsBounded ==
    /\ rt_calls <= rt_config.max_retries + 1
    /\ rt_tries <= rt_config.max_retries
    /\ rt_pc = "raised OtherError" => rt_tries = rt_calls - 1

\* C29: between construction and close() of one YandexClient,
\* _init_sync_client runs at most once under every interleaving of the
\* concurrent method calls, and all calls get the same client.
C29_InitializedOnce ==
    /\ cl_inits <= cl_closes + 1
    /\ cl_closes = 0 =>
           \A t \in DOMAIN cl_got, u \in DOMAIN cl_got :
               (cl_got[t] # 0 /\ cl_got[u] # 0) => cl_got[t] = cl_got[u]

\* C30: the scripts' two key tables are mutually inverse on the 24 codes:
\* CAMELOT_WHEEL[CAMELOT_TO_KEY[c]] = c for every code c.
C30_TablesInverse ==
    (tb_out # <<>> /\ tb_in[1] = "code") => tb_out[1] = tb_in[2]

====
